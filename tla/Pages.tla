------------------------------- MODULE Pages -------------------------------
(***************************************************************************)
(* The pages of the web interface that show and change soju's networks     *)
(* (the handlers of server.go, over the calls of client.go), and the       *)
(* message a page shows about what the one before it did (SetFlash, back,  *)
(* TakeFlash, render).  A tab loads the page of a network, its user edits  *)
(* a field or presses a button, the handler makes its calls under the      *)
(* session's lock and redirects, and the tab loads a page again.  soju     *)
(* tells networks by an id, but most of its commands take a name: those    *)
(* handlers list the networks first, and send a command made of what they  *)
(* found.  The watcher does the same with a listing that may be as old as  *)
(* its pass.  Between any two calls anybody else may change the networks.  *)
(*                                                                         *)
(* Of a network the attributes are left out that are treated like others:  *)
(* the port like the host, nickname, username and realname like the name.  *)
(***************************************************************************)
EXTENDS Naturals

CONSTANTS
    Tabs,         \* tabs of browsers
    Sessions,     \* sessions of the web interface, all of one user of soju
    SessionOf,    \* SessionOf[t]: the session whose cookie tab t has
    Ids,          \* ids of networks, as soju gives them
    Names,        \* names of networks, "" for none
    Hosts,        \* hosts; one may also be the name of a network
    FirstNets,    \* the networks there are at first
    FirstIds,     \* their ids
    Watched,      \* the networks the watcher does not skip
    NewNets,      \* the networks that are created
    Deeds,        \* what is done through the pages: a subset of AllDeeds
    Edited,       \* the fields of a network that are edited
    MaxPosts,     \* bound on posts
    MaxFaults,    \* bound on calls that fail
    MaxElsewhere  \* bound on changes made elsewhere

(* Deeds that are one command with a network's id, those that go by its    *)
(* name, and those that are about no network there is; "user" and "ask"    *)
(* are an administrator's.                                                 *)
ById == {"update", "delete"}
ByName == {"enable", "disable", "reconnect", "quote", "channel", "sasl", "certfp"}
AtLarge == {"create", "user", "ask"}
AllDeeds == ById \cup ByName \cup AtLarge

Passes == {"", "p"}

Network == [name : Names, host : Hosts, tls : {"0", "1"}, pass : Passes, on : BOOLEAN]

NoNet == [name |-> "", host |-> "", tls |-> "1", pass |-> "", on |-> TRUE]

Fields == {"name", "host", "tls", "pass", "on"}

ASSUME PagesAssumption ==
    /\ SessionOf \in [Tabs -> Sessions]
    /\ Ids \subseteq Nat \ {0} /\ FirstIds \subseteq Ids /\ Watched \subseteq Ids
    /\ "" \in Names /\ "" \notin Hosts
    /\ FirstNets \in [FirstIds -> Network] /\ NewNets \subseteq Network
    /\ \A i, j \in FirstIds : FirstNets[i].name = FirstNets[j].name => FirstNets[i].name = "" \/ i = j
    /\ Deeds \subseteq AllDeeds /\ Edited \subseteq Fields \ {"on"}
    /\ MaxPosts \in Nat /\ MaxFaults \in Nat /\ MaxElsewhere \in Nat

VARIABLES
    nets,      \* nets[i]: network i, as soju keeps it
    live,      \* the ids of the networks there are
    spent,     \* the ids soju has given so far; it gives none twice
    tab,       \* tab[t]: what tab t shows, or the handler it waits for
    flash,     \* flash[s]: the message of session s, by its post's number; 0 for none
    scan,      \* a network the watcher is looking at, as its pass listed it
    posts,     \* posts so far; they number the messages
    faults,    \* calls that failed so far
    elsewhere, \* changes made elsewhere so far
    settled    \* messages that were shown, or that another one took the place of

soju == <<nets, live, spent>>
vars == <<nets, live, spent, tab, flash, scan, posts, faults, elsewhere, settled>>

(* What a form asks for: a deed; a field and its new value, of an update;  *)
(* the network, of a create; and whether a field was left blank that must  *)
(* not be.                                                                 *)
NoWant == [do |-> "none", field |-> "name", value |-> "", net |-> NoNet, blank |-> FALSE]

(* at: where the tab, or its handler, is.  id: whose page it is, 0 for any *)
(* other page.  form: the network as the page shows it.  listed: as the    *)
(* handler found it.  hit: the network the last command was carried out    *)
(* on.  no: the number of the post, ok: whether it is called a success.    *)
Blank ==
    [at |-> "page", id |-> 0, form |-> NoNet, want |-> NoWant, listed |-> NoNet,
     try |-> 1, hit |-> 0, no |-> 0, ok |-> FALSE]

NoFlash == 0

NoScan == [id |-> 0, listed |-> NoNet]

Init ==
    /\ nets = [i \in Ids |-> IF i \in FirstIds THEN FirstNets[i] ELSE NoNet]
    /\ live = FirstIds /\ spent = FirstIds
    /\ tab = [t \in Tabs |-> Blank]
    /\ flash = [s \in Sessions |-> NoFlash]
    /\ scan = NoScan
    /\ posts = 0 /\ faults = 0 /\ elsewhere = 0
    /\ settled = {}

InDo(t) == tab[t].at \in {"list", "command"}

Locked(s) == \E t \in Tabs : SessionOf[t] = s /\ InDo(t)

-----------------------------------------------------------------------------
(* client.go: what a network is called, and where it is.                   *)

(* Not the code: a network goes by its host. *)
NameIsHost(n) == n.host

Name(n) == IF n.name # "" THEN n.name ELSE n.host

(* Addr puts an address together from the attributes; soju takes it apart. *)
Addr(n) == [host |-> n.host, tls |-> IF n.tls = "0" THEN "0" ELSE "1"]

-----------------------------------------------------------------------------
(* soju, as far as the handlers can tell.  It may refuse any command.      *)

(* What a command leads to.                                                *)
Refusal == [nets |-> nets, live |-> live, spent |-> spent, hit |-> 0, ok |-> FALSE]

Success(i, n) == [Refusal EXCEPT !.nets[i] = n, !.hit = i, !.ok = TRUE]

(* The networks a command for a name may reach: the one of that name, else *)
(* one without a name at that host, or none ("soju addresses it by its     *)
(* stored address [...] may fail to resolve", locales/en.json:61).         *)
Reached(word) ==
    LET named == {i \in live : nets[i].name # "" /\ nets[i].name = word}
    IN  IF named # {} THEN named
        ELSE {i \in live : nets[i].name = "" /\ nets[i].host = word}

(* soju does not let two networks have one name.                           *)
Free(name, i) == name = "" \/ \A j \in live \ {i} : nets[j].name # name

-----------------------------------------------------------------------------
(* server.go: what the handlers ask of soju.                               *)

(* Not the code: the password is sent as it is in the form, filled or not. *)
PassAlways(form, want) ==
    [f \in {"name", "host", "tls", "pass"} |->
        IF f = want.field THEN want.value ELSE IF f = "pass" THEN "" ELSE form[f]]

(* netAttrs, of a network that exists: every field of the form, changed or *)
(* not, but the password only if one was entered or is to be removed.      *)
NetAttrs(form, want) ==
    [f \in {"name", "host", "tls"} \cup ({want.field} \cap {"pass"}) |->
        IF f = want.field THEN want.value ELSE form[f]]

(* networkUpdate and ChangeNetwork.                                        *)
Updated(t) ==
    LET i == tab[t].id
        attrs == NetAttrs(tab[t].form, tab[t].want)
        n == [f \in Fields |-> IF f \in DOMAIN attrs THEN attrs[f] ELSE nets[i][f]]
    IN  IF i \in live /\ Free(n.name, i) THEN {Success(i, n)} ELSE {}

(* networkDelete and DeleteNetwork.                                        *)
Deleted(t) ==
    IF tab[t].id \in live
    THEN {[Success(tab[t].id, NoNet) EXCEPT !.live = live \ {tab[t].id}]}
    ELSE {}

(* networkCreate and AddNetwork.                                           *)
Created(t) ==
    {[Success(i, tab[t].want.net) EXCEPT !.live = live \cup {i}, !.spent = spent \cup {i}] :
        i \in {j \in Ids \ spent : Free(tab[t].want.net.name, j)}}

(* networkEnabled.                                                         *)
Switched(t) ==
    {Success(i, [nets[i] EXCEPT !.on = (tab[t].want.do = "enable")]) : i \in Reached(Name(tab[t].listed))}

(* A reconnect is an update of the address, with the address it has.       *)
Readdressed(listed) ==
    {Success(i, [nets[i] EXCEPT !.host = Addr(listed).host, !.tls = Addr(listed).tls]) :
        i \in Reached(Name(listed))}

(* networkReconnect. *)
Reconnected(t) == Readdressed(tab[t].listed)

(* networkQuote.                                                           *)
Quoted(t) == {Success(i, nets[i]) : i \in Reached(Name(tab[t].listed))}

(* sasl and certfp, and likewise channelCreate, channelUpdate and          *)
(* channelDelete: a command about something a network has, which is left   *)
(* out.                                                                    *)
Served(t) == {Success(i, nets[i]) : i \in Reached(Name(tab[t].listed))}

(* userDelete, and likewise userCreate, userUpdate and serverNotice, past  *)
(* their checks of who asks: not about networks.  "ask" is userDelete      *)
(* without a token: soju answers with one.                                 *)
UsersServed == {[Refusal EXCEPT !.ok = TRUE]}

Effects(t) ==
    LET do == tab[t].want.do
    IN  {Refusal} \cup
        CASE do = "update" -> Updated(t)
          [] do = "delete" -> Deleted(t)
          [] do = "create" -> Created(t)
          [] do \in {"enable", "disable"} -> Switched(t)
          [] do = "reconnect" -> Reconnected(t)
          [] do = "quote" -> Quoted(t)
          [] do \in {"channel", "sasl", "certfp"} -> Served(t)
          [] do \in {"user", "ask"} -> UsersServed

CarryOut(e) == nets' = e.nets /\ live' = e.live /\ spent' = e.spent

-----------------------------------------------------------------------------
(* A tab: pages are loaded, forms are posted.                              *)

(* The page a tab asks for next: the one it is redirected to, or any.  When *)
(* there are no posts left, only one that lists.                           *)
Asks(t, i) ==
    \/ tab[t].at = "page" /\ (posts < MaxPosts \/ i = 0)
    \/ tab[t].at = "load" /\ tab[t].id = i

(* network: an error page, without a form, if there is no network i.       *)
Load(t, i) ==
    /\ Asks(t, i)
    /\ ~Locked(SessionOf[t])
    /\ tab' = [tab EXCEPT ![t] = [Blank EXCEPT
                !.at = "render",
                !.no = tab[t].no,
                !.id = IF i \in live THEN i ELSE 0,
                !.form = IF i \in live THEN [nets[i] EXCEPT !.pass = ""] ELSE NoNet]]
    /\ UNCHANGED <<soju, flash, scan, posts, faults, elsewhere, settled>>

(* dashboard, and the other pages that only list.                          *)
LoadList(t) ==
    /\ Asks(t, 0)
    /\ ~Locked(SessionOf[t])
    /\ tab' = [tab EXCEPT ![t] = [Blank EXCEPT !.at = "render", !.no = tab[t].no]]
    /\ UNCHANGED <<soju, flash, scan, posts, faults, elsewhere, settled>>

(* A post with a required field left blank, or a userUpdate with nothing   *)
(* to change, is refused before Do, but sasl looks at its fields only      *)
(* inside.  On the pages of users a post of somebody who is no             *)
(* administrator is answered with an error, and is none of these.          *)
Post(t, want) ==
    /\ tab[t].at = "page" /\ posts < MaxPosts
    /\ (tab[t].id = 0) = (want.do \in AtLarge)
    /\ posts' = posts + 1
    /\ tab' = [tab EXCEPT ![t].want = want, ![t].no = posts + 1,
                          ![t].form = IF want.do = "update" THEN @ ELSE NoNet,
                          ![t].at = IF want.blank /\ want.do # "sasl" THEN "back" ELSE "wait"]
    /\ UNCHANGED <<soju, flash, scan, faults, elsewhere, settled>>

-----------------------------------------------------------------------------
(* The handlers, inside Do.                                                *)

First(do) == IF do \in ByName THEN "list" ELSE "command"

(* Not the code: Do does not wait for another handler of the session.      *)
Unlocked(t) == TRUE

MayLock(t) == ~Locked(SessionOf[t])

DoLock(t) ==
    /\ tab[t].at = "wait"
    /\ MayLock(t)
    /\ tab' = [tab EXCEPT ![t].at = First(tab[t].want.do)]
    /\ UNCHANGED <<soju, flash, scan, posts, faults, elsewhere, settled>>

(* The handler has its outcome; of what it went by, nothing else matters.  *)
Outcome(t) ==
    [tab[t] EXCEPT !.at = "back", !.form = NoNet, !.listed = NoNet, !.try = 1,
                   !.want = [NoWant EXCEPT !.do = tab[t].want.do]]

(* userDelete does not redirect, but shows the token for its user to agree.*)
Confirmation == [Blank EXCEPT !.at = "render"]

(* Network(id): a listing, and the network of that id in it.               *)
List(t) ==
    LET found == tab[t].id \in live
    IN  /\ tab[t].at = "list"
        /\ tab' = [tab EXCEPT
                    ![t] = IF found /\ ~tab[t].want.blank
                           THEN [tab[t] EXCEPT !.at = "command", !.listed = nets[tab[t].id]]
                           ELSE Outcome(t)]
        /\ UNCHANGED <<soju, flash, scan, posts, faults, elsewhere, settled>>

Command(t) ==
    /\ tab[t].at = "command"
    /\ \E e \in Effects(t) :
          /\ CarryOut(e)
          /\ tab' = [tab EXCEPT ![t] =
                IF e.ok /\ tab[t].want.do = "ask"
                THEN Confirmation
                ELSE [Outcome(t) EXCEPT !.hit = e.hit, !.ok = e.ok]]
    /\ UNCHANGED <<flash, scan, posts, faults, elsewhere, settled>>

(* A call fails.  If the connection turned out closed Do runs the function *)
(* again, once, from its start; any other error is the outcome.            *)
Failed(t) ==
    IF tab[t].try = 1
    THEN {Outcome(t), [tab[t] EXCEPT !.at = First(tab[t].want.do), !.try = 2, !.listed = NoNet]}
    ELSE {Outcome(t)}

ListFails(t) ==
    /\ tab[t].at = "list" /\ faults < MaxFaults
    /\ faults' = faults + 1
    /\ \E next \in Failed(t) : tab' = [tab EXCEPT ![t] = next]
    /\ UNCHANGED <<soju, flash, scan, posts, elsewhere, settled>>

(* soju may have carried the command out all the same.                     *)
CommandFails(t) ==
    /\ tab[t].at = "command" /\ faults < MaxFaults
    /\ faults' = faults + 1
    /\ \E e \in Effects(t), next \in Failed(t) :
          /\ CarryOut(e)
          /\ tab' = [tab EXCEPT ![t] = [next EXCEPT !.hit = e.hit]]
    /\ UNCHANGED <<flash, scan, posts, elsewhere, settled>>

-----------------------------------------------------------------------------
(* back and render.                                                        *)

(* Where a handler redirects to.                                           *)
Target(t) ==
    CASE tab[t].want.do = "create" -> IF tab[t].ok THEN tab[t].hit ELSE 0
      [] tab[t].want.do = "delete" -> IF tab[t].ok THEN 0 ELSE tab[t].id
      [] OTHER -> tab[t].id

(* networkQuote tells what soju replied: nothing, if that is an empty line.*)
MayBeSilent(t) == tab[t].want.do = "quote" /\ tab[t].ok

Back(t) ==
    LET s == SessionOf[t]
    IN  /\ tab[t].at = "back"
        /\ ~Locked(s)
        /\ \/ /\ flash' = [flash EXCEPT ![s] = tab[t].no]
              /\ settled' = settled \cup ({flash[s]} \ {NoFlash})
              /\ tab' = [tab EXCEPT ![t] = [Blank EXCEPT !.at = "load", !.id = Target(t), !.no = tab[t].no]]
           \/ /\ MayBeSilent(t)
              /\ tab' = [tab EXCEPT ![t] = [Blank EXCEPT !.at = "load", !.id = Target(t)]]
              /\ UNCHANGED <<flash, settled>>
        /\ UNCHANGED <<soju, scan, posts, faults, elsewhere>>

(* Not the code: the message stays in its slot.                            *)
StillThere(s) == flash[s]

(* TakeFlash empties the slot.                                             *)
Taken(s) == NoFlash

Render(t) ==
    LET s == SessionOf[t]
    IN  /\ tab[t].at = "render"
        /\ ~Locked(s)
        /\ settled' = settled \cup ({flash[s]} \ {NoFlash})
        /\ flash' = [flash EXCEPT ![s] = Taken(s)]
        /\ tab' = [tab EXCEPT ![t].at = "page", ![t].no = 0]
        /\ UNCHANGED <<soju, scan, posts, faults, elsewhere>>

-----------------------------------------------------------------------------
(* The watcher: the networks are listed when a pass begins (Run); repair   *)
(* and reconnectForNick go by that listing, however long ago it was.       *)

WatchList(i) ==
    /\ scan.id = 0 /\ i \in live
    /\ scan' = [id |-> i, listed |-> nets[i]]
    /\ UNCHANGED <<soju, tab, flash, posts, faults, elsewhere, settled>>

WatchReconnect ==
    /\ scan.id # 0
    /\ \E e \in {Refusal} \cup Readdressed(scan.listed) : CarryOut(e)
    /\ scan' = NoScan
    /\ UNCHANGED <<tab, flash, posts, faults, elsewhere, settled>>

(* Another session, an IRC client or the console changes a network, or     *)
(* takes it away.                                                          *)
Elsewhere(i) ==
    /\ elsewhere < MaxElsewhere /\ i \in live
    /\ elsewhere' = elsewhere + 1
    /\ \/ \E name \in Names \ {nets[i].name} :
             Free(name, i) /\ nets' = [nets EXCEPT ![i].name = name] /\ live' = live
       \/ \E host \in Hosts \ {nets[i].host} :
             nets' = [nets EXCEPT ![i].host = host] /\ live' = live
       \/ live' = live \ {i} /\ nets' = [nets EXCEPT ![i] = NoNet]
    /\ UNCHANGED <<spent, tab, flash, scan, posts, faults, settled>>

-----------------------------------------------------------------------------

Values(f) ==
    CASE f = "name" -> Names
      [] f = "host" -> Hosts
      [] f = "tls" -> {"0", "1"}
      [] f = "pass" -> Passes

Updates ==
    UNION {{[NoWant EXCEPT !.do = "update", !.field = f, !.value = v] : v \in Values(f)} :
              f \in Edited}

Creates == {[NoWant EXCEPT !.do = "create", !.net = net] : net \in NewNets}

Others ==
    [do : AllDeeds \ {"update", "create"}, field : {"name"}, value : {""}, net : {NoNet}, blank : {FALSE}]
        \cup {[NoWant EXCEPT !.do = do, !.blank = TRUE] : do \in {"create", "quote", "channel", "sasl", "user"}}

Wants == {want \in Updates \cup Creates \cup Others : want.do \in Deeds}

Next ==
    \/ \E t \in Tabs :
          \/ \E i \in Ids : Load(t, i)
          \/ \E want \in Wants : Post(t, want)
          \/ LoadList(t) \/ DoLock(t) \/ List(t) \/ Command(t)
          \/ ListFails(t) \/ CommandFails(t) \/ Back(t) \/ Render(t)
    \/ \E i \in Watched : WatchList(i)
    \/ \E i \in Ids : Elsewhere(i)
    \/ WatchReconnect

Spec == Init /\ [][Next]_vars

-----------------------------------------------------------------------------
(* Types, and what the properties say.                                     *)

Places == {"page", "wait", "list", "command", "back", "load", "render"}

(* Every variable keeps its type; no two handlers of a session are inside  *)
(* Do at a time, and soju never has two networks of one name.              *)
TypeOK ==
    /\ nets \in [Ids -> Network \cup {NoNet}] /\ live \subseteq spent /\ spent \subseteq Ids
    /\ \A i \in live : Free(nets[i].name, i)
    /\ tab \in [Tabs -> [at : Places, id : Ids \cup {0}, form : Network \cup {NoNet},
                         want : Wants \cup {[NoWant EXCEPT !.do = do] : do \in Deeds \cup {"none"}},
                         listed : Network \cup {NoNet}, try : 1..2, hit : Ids \cup {0},
                         no : 0..MaxPosts, ok : BOOLEAN]]
    /\ \A t, u \in Tabs : InDo(t) /\ InDo(u) /\ SessionOf[t] = SessionOf[u] => t = u
    /\ flash \in [Sessions -> 0..MaxPosts]
    /\ scan.id \in Ids \cup {0} /\ scan.listed \in Network \cup {NoNet}
    /\ posts \in 0..MaxPosts /\ faults \in 0..MaxFaults /\ elsewhere \in 0..MaxElsewhere
    /\ settled \subseteq 1..posts

(* A name is not held on to: network i, as it was listed, had none and was *)
(* called by its host, or it was renamed or deleted since.                 *)
Astray(i, listed) == listed.name = "" \/ i \notin live \/ nets[i].name # listed.name

(* A deed that goes by a network's name is done to the network whose page  *)
(* asked for it, and to no other, unless its name went astray between the  *)
(* listing and the command (server.go:418-584, 864-881).                   *)
ActsOnItsNetwork ==
    [][ \A t \in Tabs :
           LET i == tab[t].id
           IN  tab[t].at = "command" /\ tab'[t].at # "command" /\ tab[t].want.do \in ByName
                 => tab'[t].hit \in {0, i} \/ Astray(i, tab[t].listed) ]_vars

(* A command for a name is about network i, if it is meant for network id. *)
About(i, id, listed) == i = id \/ Astray(id, listed)

(* What a step asks for: one field of its network, or its being on.        *)
AsksFor(t, i, f) ==
    LET want == tab[t].want
    IN  \/ want.do = "update" /\ i = tab[t].id /\ f = want.field
        \/ want.do \in {"enable", "disable"} /\ About(i, tab[t].id, tab[t].listed) /\ f = "on"

(* What a reconnect meant for network id writes back unasked: the address  *)
(* of the listing it went by.                                              *)
Readdresses(i, f, id, listed) ==
    About(i, id, listed) /\ f \in {"host", "tls"} /\ nets'[i][f] = listed[f]

(* What a step writes back unasked is what it had read before, from the    *)
(* form or from the listing.                                               *)
WritesBack(t, i, f) ==
    \/ tab[t].want.do = "update" /\ i = tab[t].id /\ f \in {"name", "host", "tls"}
          /\ nets'[i][f] = tab[t].form[f]
    \/ tab[t].want.do = "reconnect" /\ Readdresses(i, f, tab[t].id, tab[t].listed)

(* Whoever changes or reconnects a network leaves alone every other        *)
(* network, unless the name it goes by went astray, and of its own network *)
(* what it was not asked to change: a field gets another value unasked     *)
(* only if the value is an old one, that somebody changed after the page   *)
(* was loaded or the networks were listed.  A password is never changed    *)
(* unasked, and only the network whose page asked for it is deleted        *)
(* (server.go:318-344, 410-446, 864-881; watch.go:233-239, 317-332).       *)
EditsKept ==
    [][ elsewhere' = elsewhere =>
          /\ \A i \in live \cap live', f \in Fields : nets'[i][f] # nets[i][f] =>
                \/ \E t \in Tabs : tab'[t] # tab[t] /\ (AsksFor(t, i, f) \/ WritesBack(t, i, f))
                \/ scan' # scan /\ Readdresses(i, f, scan.id, scan.listed)
          /\ \A i \in live \ live' :
                \E t \in Tabs : tab'[t] # tab[t] /\ tab[t].want.do = "delete" /\ tab[t].id = i ]_vars

(* The outcome of a post is shown at most once, and by the time the tab it *)
(* was made in has its page it was shown, there or in another tab of the   *)
(* session that was loaded first, or another outcome took its place,       *)
(* unless there was nothing to tell (session.go:29-41,                     *)
(* server.go:172-194).                                                     *)
OutcomeTold ==
    [][ \A t \in Tabs :
           LET s == SessionOf[t]
           IN  /\ flash'[s] \notin settled'
               /\ tab[t].at = "render" /\ tab'[t].at = "page" /\ tab[t].no # 0 => tab[t].no \in settled' ]_vars
=============================================================================
