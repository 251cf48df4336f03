---------------------------- MODULE PagesProofs ----------------------------
(***************************************************************************)
(* What holds of Pages for any number of tabs, sessions, networks and      *)
(* posts.                                                                  *)
(***************************************************************************)
EXTENDS Pages, TLAPS

(* What is asked for, or what is left of that in the end.                  *)
Asked == Wants \cup {[NoWant EXCEPT !.do = do] : do \in Deeds \cup {"none"}}

Tab ==
    [at : Places, id : Ids \cup {0}, form : Network \cup {NoNet},
     want : Asked, listed : Network \cup {NoNet}, try : 1..2, hit : Ids \cup {0},
     no : 0..MaxPosts, ok : BOOLEAN]

(* A page that has a form shows a network, a handler has been asked for    *)
(* something, which may lack a field only if that is noticed inside Do, and*)
(* sends a command for a name once it has found the network.               *)
Sound(r) ==
    /\ r.at \in {"page", "render"} /\ r.id # 0 => r.form \in Network
    /\ r.at \in {"wait", "list", "command"} =>
          /\ r.want \in Wants
          /\ r.want.do = "update" => r.form \in Network
          /\ r.want.blank => r.want.do = "sasl"
    /\ r.at = "command" /\ r.want.do \in ByName => r.listed \in Network

(* What soju keeps, and what is known of it.                               *)
SojuInv ==
    /\ nets \in [Ids -> Network \cup {NoNet}] /\ live \subseteq spent /\ spent \subseteq Ids
    /\ \A i \in live : nets[i] \in Network /\ Free(nets[i].name, i)

TabInv ==
    /\ tab \in [Tabs -> Tab]
    /\ \A t \in Tabs : Sound(tab[t])

LockInv == \A t, u \in Tabs : InDo(t) /\ InDo(u) /\ SessionOf[t] = SessionOf[u] => t = u

ScanInv ==
    /\ scan.id \in Ids \cup {0} /\ scan.listed \in Network \cup {NoNet}
    /\ scan.id # 0 => scan.listed \in Network

CountInv == posts \in 0..MaxPosts /\ faults \in 0..MaxFaults /\ elsewhere \in 0..MaxElsewhere

KnownInv == SojuInv /\ TabInv /\ LockInv /\ ScanInv /\ CountInv

(* A handler has a message to leave whose number nobody has seen.          *)
Pending == {"wait", "list", "command", "back"}

(* A page that is loaded after a post finds its message in the slot, or    *)
(* the message was there.                                                  *)
Numbered(r, s) ==
    /\ r.no \in 0..posts
    /\ r.at \in Pending => r.no # 0 /\ r.no \notin settled /\ \A u \in Sessions : flash[u] # r.no
    /\ r.at \in {"load", "render"} => r.no \in settled \cup {0, flash[s]}
    /\ r.at = "page" => r.no = 0

(* No number is at two places at which a message has yet to be shown.      *)
MessageInv ==
    /\ posts \in Nat
    /\ settled \subseteq 1..posts
    /\ flash \in [Sessions -> 0..posts]
    /\ \A s \in Sessions : flash[s] \notin settled
    /\ \A s, u \in Sessions : flash[s] = flash[u] => flash[s] = 0 \/ s = u
    /\ \A t \in Tabs : Numbered(tab[t], SessionOf[t])
    /\ \A t, u \in Tabs : tab[t].at \in Pending /\ tab[u].at \in Pending /\ tab[t].no = tab[u].no => t = u

PagesInv == KnownInv /\ MessageInv

-----------------------------------------------------------------------------
(* What the forms of the pages ask for.                                    *)

LEMMA BoundsAreNat == MaxPosts \in Nat /\ MaxFaults \in Nat /\ MaxElsewhere \in Nat
BY PagesAssumption

(* A network has its fields, and a field that is given a value it may have *)
(* leaves it a network.                                                    *)
LEMMA FieldTypes ==
    ASSUME NEW n \in Network
    PROVE  /\ n.name \in Names /\ n.host \in Hosts /\ n.tls \in {"0", "1"}
           /\ n.pass \in Passes /\ n.on \in BOOLEAN
           /\ \A v \in Names : [n EXCEPT !.name = v] \in Network
           /\ \A v \in Hosts : [n EXCEPT !.host = v] \in Network
           /\ \A v \in {"0", "1"} : [n EXCEPT !.tls = v] \in Network
           /\ \A v \in BOOLEAN : [n EXCEPT !.on = v] \in Network
           /\ [n EXCEPT !.pass = ""] \in Network
BY DEF Network, Passes

(* A deed that is asked for is one of those there are; an update gives a   *)
(* field a value that it may have, and a create says what to create.       *)
LEMMA WantTypes ==
    ASSUME NEW want \in Wants
    PROVE  /\ want.do \in Deeds /\ want.do # "none"
           /\ want.do = "update" => want.field \in Edited /\ want.value \in Values(want.field)
           /\ want.do = "create" => want.blank \/ want.net \in Network
<1>1. want \in Updates \cup Creates \cup Others /\ want.do \in Deeds
  BY DEF Wants
<1>2. want.do # "none"
  BY <1>1, PagesAssumption DEF AllDeeds, ById, ByName, AtLarge
<1>3. CASE want \in Updates
  <2>1. PICK f \in Edited : \E v \in Values(f) :
            want = [NoWant EXCEPT !.do = "update", !.field = f, !.value = v]
    BY <1>3 DEF Updates
  <2> QED
    BY <1>1, <1>2, <2>1 DEF NoWant
<1>4. CASE want \in Creates
  <2>1. PICK net \in NewNets : want = [NoWant EXCEPT !.do = "create", !.net = net]
    BY <1>4 DEF Creates
  <2> QED
    BY <1>1, <1>2, <2>1, PagesAssumption DEF NoWant
<1>5. CASE want \in Others
  <2>1. want.do # "update" /\ (want.do = "create" => want.blank)
    BY <1>5 DEF Others, NoWant
  <2> QED
    BY <1>1, <1>2, <2>1
<1> QED
  BY <1>1, <1>3, <1>4, <1>5

-----------------------------------------------------------------------------
(* What a command does to the networks.                                    *)

(* What SojuInv says, of networks N, of which those in L are there.        *)
Networks(N, L, S) ==
    /\ N \in [Ids -> Network \cup {NoNet}] /\ L \subseteq S /\ S \subseteq Ids
    /\ \A i \in L : N[i] \in Network
    /\ \A i \in L : N[i].name = "" \/ \A j \in L \ {i} : N[j].name # N[i].name

LEMMA SojuNetworks == SojuInv <=> Networks(nets, live, spent)
BY DEF SojuInv, Networks, Free

(* Whoever gives a network a name that is free leaves networks with names  *)
(* of their own.                                                           *)
LEMMA Replaced ==
    ASSUME SojuInv, NEW i \in Ids, NEW n \in Network, Free(n.name, i)
    PROVE  Networks([nets EXCEPT ![i] = n], live \cup {i}, spent \cup {i})
<1> DEFINE N == [nets EXCEPT ![i] = n]
<1>1. N \in [Ids -> Network \cup {NoNet}] /\ N[i] = n /\ \A j \in live \ {i} : N[j] = nets[j]
  BY DEF SojuInv
<1>2. \A j \in live \cup {i} : N[j] \in Network
  BY <1>1 DEF SojuInv
<1>3. ASSUME NEW j \in live \cup {i}, N[j].name # "", NEW k \in (live \cup {i}) \ {j}
      PROVE  N[k].name # N[j].name
  BY <1>1, <1>3 DEF SojuInv, Free
<1> QED
  BY <1>1, <1>2, <1>3 DEF SojuInv, Networks

LEMMA Removed ==
    ASSUME SojuInv, NEW i \in Ids
    PROVE  Networks([nets EXCEPT ![i] = NoNet], live \ {i}, spent)
BY DEF SojuInv, Networks, Free

(* A name that did not go astray reaches the one network that has it.      *)
LEMMA NameReachesIts ==
    ASSUME SojuInv, NEW i, NEW listed, NEW j \in Reached(Name(listed))
    PROVE  About(j, i, listed)
<1> SUFFICES ASSUME ~Astray(i, listed)
             PROVE  j = i
  BY DEF About
<1>1. i \in live /\ listed.name # "" /\ nets[i].name = listed.name
  BY DEF Astray
<1>2. Name(listed) = listed.name
  BY <1>1 DEF Name
<1>3. i \in {k \in live : nets[k].name # "" /\ nets[k].name = Name(listed)}
  BY <1>1, <1>2
<1>4. j \in live /\ nets[j].name = nets[i].name /\ nets[i].name # ""
  BY <1>1, <1>2, <1>3 DEF Reached
<1> QED
  BY <1>1, <1>4 DEF SojuInv, Free

(* A value of field f of network i that is written back as it was read.    *)
Due(t, i, f, v) ==
    \/ tab[t].want.do = "update" /\ i = tab[t].id /\ f \in {"name", "host", "tls"}
          /\ v = tab[t].form[f]
    \/ tab[t].want.do = "reconnect" /\ About(i, tab[t].id, tab[t].listed) /\ f \in {"host", "tls"}
          /\ v = tab[t].listed[f]

(* An effect leaves sound networks, and changes none but by what was asked *)
(* for or had been read; for a name it is one on a network of that name.   *)
Proper(e, t) ==
    /\ Networks(e.nets, e.live, e.spent) /\ e.hit \in Ids \cup {0} /\ e.ok \in BOOLEAN
    /\ \A i \in live \cap e.live, f \in Fields :
          e.nets[i][f] # nets[i][f] => AsksFor(t, i, f) \/ Due(t, i, f, e.nets[i][f])
    /\ \A i \in live \ e.live : tab[t].want.do = "delete" /\ i = tab[t].id
    /\ tab[t].want.do \in ByName => e.hit \in Reached(Name(tab[t].listed)) \cup {0}

LEMMA RefusalIsProper ==
    ASSUME SojuInv, NEW t
    PROVE  Proper(Refusal, t) /\ Proper([Refusal EXCEPT !.ok = TRUE], t)
BY SojuNetworks DEF Proper, Refusal

(* One network changes, which is there.                                    *)
LEMMA SuccessIsProper ==
    ASSUME SojuInv, NEW t, NEW i \in live, NEW n \in Network, Free(n.name, i),
           \A f \in Fields : n[f] # nets[i][f] => AsksFor(t, i, f) \/ Due(t, i, f, n[f]),
           tab[t].want.do \in ByName => i \in Reached(Name(tab[t].listed))
    PROVE  Proper(Success(i, n), t)
<1> DEFINE N == [nets EXCEPT ![i] = n]
<1>1. i \in Ids /\ live \cup {i} = live /\ spent \cup {i} = spent
  BY DEF SojuInv
<1>2. Networks(N, live, spent)
  BY <1>1, Replaced
<1>3. \A j \in live, f \in Fields : N[j][f] # nets[j][f] => AsksFor(t, j, f) \/ Due(t, j, f, N[j][f])
  BY <1>1 DEF SojuInv
<1>4. /\ Success(i, n).nets = N /\ Success(i, n).live = live /\ Success(i, n).spent = spent
      /\ Success(i, n).hit = i /\ Success(i, n).ok = TRUE
  BY DEF Success, Refusal
<1> QED
  BY <1>1, <1>2, <1>3, <1>4 DEF Proper

(* A reconnect writes the address that was listed.                         *)
LEMMA AddrKeeps ==
    ASSUME NEW net \in Network, NEW listed \in Network
    PROVE  LET n == [net EXCEPT !.host = Addr(listed).host, !.tls = Addr(listed).tls]
           IN  /\ n \in Network /\ n.name = net.name
               /\ \A f \in Fields : n[f] # net[f] => f \in {"host", "tls"} /\ n[f] = listed[f]
<1> DEFINE n == [net EXCEPT !.host = Addr(listed).host, !.tls = Addr(listed).tls]
<1>1. listed.host \in Hosts /\ listed.tls \in {"0", "1"}
  BY FieldTypes
<1>2. Addr(listed).host = listed.host /\ Addr(listed).tls = listed.tls
  BY <1>1 DEF Addr
<1>3. n = [[net EXCEPT !.host = listed.host] EXCEPT !.tls = listed.tls]
  BY <1>2 DEF Network
<1>4. n \in Network
  BY <1>1, <1>3, FieldTypes
<1>5. n.name = net.name /\ \A f \in Fields : n[f] # net[f] => f \in {"host", "tls"} /\ n[f] = listed[f]
  BY <1>2 DEF Network, Fields
<1> QED
  BY <1>4, <1>5

(* Whatever a handler asks of soju, and whatever becomes of it.            *)
LEMMA EffectIsProper ==
    ASSUME KnownInv, NEW t \in Tabs, tab[t].at = "command", NEW e \in Effects(t)
    PROVE  Proper(e, t)
<1> DEFINE want == tab[t].want
           do == want.do
           r == tab[t]
<1>1. /\ SojuInv /\ want \in Wants /\ r.id \in Ids \cup {0}
      /\ do = "update" => r.form \in Network
      /\ want.blank => do = "sasl"
      /\ do \in ByName => r.listed \in Network
  BY DEF KnownInv, TabInv, Sound, Tab
<1>2. /\ do \in AllDeeds
      /\ do = "update" => want.field \in Edited /\ want.value \in Values(want.field)
      /\ do = "create" => want.net \in Network
  BY <1>1, WantTypes, PagesAssumption
<1>3. live \subseteq Ids /\ live \subseteq spent /\ spent \subseteq Ids /\ \A i \in live : nets[i] \in Network
  BY <1>1 DEF SojuInv
<1>4. CASE e = Refusal
  BY <1>1, <1>4, RefusalIsProper
<1>5. CASE do = "update" /\ e \in Updated(t)
  <2> DEFINE i == r.id
             attrs == NetAttrs(r.form, want)
             n == [f \in Fields |-> IF f \in DOMAIN attrs THEN attrs[f] ELSE nets[i][f]]
  <2>1. i \in live /\ Free(n.name, i) /\ e = Success(i, n)
    BY <1>5 DEF Updated
  <2>2. r.form \in Network /\ nets[i] \in Network /\ want.field \in {"name", "host", "tls", "pass"}
        /\ want.value \in Values(want.field)
    BY <1>1, <1>2, <1>3, <1>5, <2>1, PagesAssumption DEF Fields
  <2>3. \A f \in Fields :
          n[f] = IF f = want.field THEN want.value
                 ELSE IF f \in {"name", "host", "tls"} THEN r.form[f] ELSE nets[i][f]
    BY <2>2 DEF NetAttrs, Fields
  <2>4. n \in Network
    BY <2>2, <2>3 DEF Network, Fields, Values
  <2>5. \A f \in Fields : n[f] # nets[i][f] => AsksFor(t, i, f) \/ Due(t, i, f, n[f])
    BY <1>5, <2>3 DEF AsksFor, Due
  <2> HIDE DEF n
  <2>6. do \notin ByName
    BY <1>5 DEF ByName
  <2> QED
    BY <1>1, <2>1, <2>4, <2>5, <2>6, SuccessIsProper
<1>6. CASE do = "delete" /\ e \in Deleted(t)
  <2>1. r.id \in live /\ e = [Success(r.id, NoNet) EXCEPT !.live = live \ {r.id}]
    BY <1>6 DEF Deleted
  <2>2. /\ e.nets = [nets EXCEPT ![r.id] = NoNet] /\ e.live = live \ {r.id} /\ e.spent = spent
        /\ e.hit = r.id /\ e.ok = TRUE
    BY <2>1 DEF Success, Refusal
  <2>3. Networks(e.nets, e.live, e.spent)
    BY <1>1, <1>3, <2>1, <2>2, Removed
  <2>4. \A j \in live \cap e.live : e.nets[j] = nets[j]
    BY <1>1, <2>2 DEF SojuInv
  <2> QED
    BY <1>3, <1>6, <2>1, <2>2, <2>3, <2>4 DEF Proper, ByName
<1>7. CASE do = "create" /\ e \in Created(t)
  <2>1. PICK i \in Ids \ spent :
           /\ Free(want.net.name, i)
           /\ e = [Success(i, want.net) EXCEPT !.live = live \cup {i}, !.spent = spent \cup {i}]
    BY <1>7 DEF Created
  <2>2. /\ e.nets = [nets EXCEPT ![i] = want.net] /\ e.live = live \cup {i} /\ e.spent = spent \cup {i}
        /\ e.hit = i /\ e.ok = TRUE
    BY <2>1 DEF Success, Refusal
  <2>3. Networks(e.nets, e.live, e.spent)
    <3>1. want.net \in Network
      BY <1>1, <1>2, <1>7
    <3> HIDE DEF want
    <3>2. Networks([nets EXCEPT ![i] = want.net], live \cup {i}, spent \cup {i})
      BY <1>1, <2>1, <3>1, Replaced
    <3> QED
      BY <2>2, <3>2
  <2>4. \A j \in live : e.nets[j] = nets[j] /\ j \in e.live
    <3> SUFFICES ASSUME NEW j \in live
                 PROVE  e.nets[j] = nets[j] /\ j \in e.live
      OBVIOUS
    <3>1. j # i /\ j \in Ids /\ j \in e.live
      BY <1>3, <2>1, <2>2
    <3>2. nets \in [Ids -> Network \cup {NoNet}]
      BY <1>1 DEF SojuInv
    <3> HIDE DEF want, do, r
    <3> QED
      BY <2>2, <3>1, <3>2
  <2> QED
    BY <1>7, <2>1, <2>2, <2>3, <2>4 DEF Proper, ByName
<1>8. CASE do \in {"enable", "disable"} /\ e \in Switched(t)
  <2>1. PICK i \in Reached(Name(r.listed)) : e = Success(i, [nets[i] EXCEPT !.on = (do = "enable")])
    BY <1>8 DEF Switched
  <2> DEFINE n == [nets[i] EXCEPT !.on = (do = "enable")]
  <2>2. i \in live /\ nets[i] \in Network /\ Free(nets[i].name, i)
    BY <1>1 DEF Reached, SojuInv
  <2>3. n \in Network /\ n.name = nets[i].name
    BY <2>2, FieldTypes DEF Network
  <2>4. \A f \in Fields : n[f] # nets[i][f] => f = "on"
    BY <2>2 DEF Network, Fields
  <2>5. About(i, tab[t].id, tab[t].listed)
    BY <1>1, NameReachesIts
  <2>6. \A f \in Fields : n[f] # nets[i][f] => AsksFor(t, i, f)
    BY <1>8, <2>4, <2>5 DEF AsksFor
  <2> HIDE DEF n
  <2> QED
    BY <1>1, <1>8, <2>1, <2>2, <2>3, <2>6, SuccessIsProper DEF n
<1>9. CASE do = "reconnect" /\ e \in Reconnected(t)
  <2>1. PICK i \in Reached(Name(r.listed)) :
           e = Success(i, [nets[i] EXCEPT !.host = Addr(r.listed).host, !.tls = Addr(r.listed).tls])
    BY <1>9 DEF Reconnected, Readdressed
  <2> DEFINE n == [nets[i] EXCEPT !.host = Addr(r.listed).host, !.tls = Addr(r.listed).tls]
  <2>2. i \in live /\ nets[i] \in Network /\ Free(nets[i].name, i) /\ r.listed \in Network
    BY <1>1, <1>9 DEF Reached, SojuInv, ByName
  <2>3. /\ n \in Network /\ n.name = nets[i].name
        /\ \A f \in Fields : n[f] # nets[i][f] => f \in {"host", "tls"} /\ n[f] = r.listed[f]
    <3>1. PICK net \in Network, listed \in Network : net = nets[i] /\ listed = r.listed
      BY <2>2
    <3>2. n = [net EXCEPT !.host = Addr(listed).host, !.tls = Addr(listed).tls]
      BY <3>1
    <3> HIDE DEF n, r
    <3>3. n \in Network /\ n.name = net.name
          /\ \A f \in Fields : n[f] # net[f] => f \in {"host", "tls"} /\ n[f] = listed[f]
      BY <3>2, AddrKeeps
    <3> QED
      BY <3>1, <3>3
  <2>4. About(i, tab[t].id, tab[t].listed)
    BY <1>1, NameReachesIts
  <2> HIDE DEF n
  <2>5. \A f \in Fields : n[f] # nets[i][f] => Due(t, i, f, n[f])
    BY <1>9, <2>3, <2>4 DEF Due
  <2> QED
    BY <1>1, <1>9, <2>1, <2>2, <2>3, <2>5, SuccessIsProper DEF n
<1>10. CASE do \in {"quote", "channel", "sasl", "certfp"} /\ e \in Served(t)
  <2>1. PICK i \in Reached(Name(r.listed)) : e = Success(i, nets[i])
    BY <1>10 DEF Served
  <2>2. i \in live /\ nets[i] \in Network /\ Free(nets[i].name, i)
    BY <1>1 DEF Reached, SojuInv
  <2> QED
    BY <1>1, <2>1, <2>2, SuccessIsProper
<1>11. CASE do \in {"user", "ask"} /\ e \in UsersServed
  BY <1>1, <1>11, RefusalIsProper DEF UsersServed
<1>12. Quoted(t) = Served(t)
  BY DEF Quoted, Served
<1> QED
  BY <1>2, <1>4, <1>5, <1>6, <1>7, <1>8, <1>9, <1>10, <1>11, <1>12
     DEF Effects, AllDeeds, ById, ByName, AtLarge

-----------------------------------------------------------------------------
(* A step of a tab.                                                        *)

(* What has to hold of where a tab goes, for the rest to go on holding.    *)
LEMMA TabKeeps ==
    ASSUME TabInv, LockInv, NEW t \in Tabs, NEW r \in Tab, Sound(r),
           tab' = [tab EXCEPT ![t] = r],
           r.at \in {"list", "command"} => InDo(t) \/ ~Locked(SessionOf[t])
    PROVE  TabInv' /\ LockInv'
<1>1. tab'[t] = r /\ \A u \in Tabs \ {t} : tab'[u] = tab[u]
  BY DEF TabInv
<1>2. TabInv'
  BY <1>1 DEF TabInv
<1>3. \A u \in Tabs \ {t} : InDo(u)' = InDo(u)
  BY <1>1 DEF InDo
<1>4. InDo(t)' => InDo(t) \/ ~Locked(SessionOf[t])
  BY <1>1 DEF InDo
<1>5. LockInv'
  BY <1>3, <1>4 DEF LockInv, Locked
<1> QED
  BY <1>2, <1>5

(* A step that neither leaves a message nor shows one.                     *)
LEMMA SilentKeeps ==
    ASSUME MessageInv, TabInv, NEW t \in Tabs, NEW r \in Tab,
           tab' = [tab EXCEPT ![t] = r], Numbered(r, SessionOf[t]),
           r.at \in Pending => tab[t].at \in Pending /\ r.no = tab[t].no,
           UNCHANGED <<flash, settled, posts>>
    PROVE  MessageInv'
<1>1. tab'[t] = r /\ \A u \in Tabs \ {t} : tab'[u] = tab[u]
  BY DEF TabInv
<1>2. \A u \in Tabs : Numbered(tab[u], SessionOf[u])' = Numbered(tab'[u], SessionOf[u])
  BY DEF Numbered
<1>3. \A u \in Tabs : Numbered(tab[u], SessionOf[u])'
  BY <1>1, <1>2 DEF MessageInv
<1>4. \A u, v \in Tabs : tab'[u].at \in Pending /\ tab'[v].at \in Pending /\ tab'[u].no = tab'[v].no => u = v
  BY <1>1 DEF MessageInv
<1> QED
  BY <1>3, <1>4 DEF MessageInv

(* A step that changes one tab, and soju's networks perhaps.               *)
LEMMA TabStepKeeps ==
    ASSUME PagesInv, NEW t \in Tabs, NEW r \in Tab, Sound(r), tab' = [tab EXCEPT ![t] = r],
           r.at \in {"list", "command"} => InDo(t) \/ ~Locked(SessionOf[t]),
           Numbered(r, SessionOf[t]),
           r.at \in Pending => tab[t].at \in Pending /\ r.no = tab[t].no,
           UNCHANGED <<flash, settled, posts, scan, elsewhere>>,
           Networks(nets', live', spent'), faults' \in 0..MaxFaults
    PROVE  PagesInv'
<1>1. TabInv' /\ LockInv'
  BY TabKeeps DEF PagesInv, KnownInv
<1>2. MessageInv'
  BY SilentKeeps DEF PagesInv, KnownInv
<1>3. SojuInv'
  BY DEF SojuInv, Networks, Free
<1>4. ScanInv' /\ CountInv'
  BY DEF PagesInv, KnownInv, ScanInv, CountInv
<1> QED
  BY <1>1, <1>2, <1>3, <1>4 DEF PagesInv, KnownInv

(* The same of a handler that goes on.                                     *)
LEMMA HandlerKeeps ==
    ASSUME PagesInv, NEW t \in Tabs, NEW r \in Tab, Sound(r), tab' = [tab EXCEPT ![t] = r],
           tab[t].at \in Pending, r.at \in Pending, r.no = tab[t].no,
           r.at \in {"list", "command"} => InDo(t) \/ ~Locked(SessionOf[t]),
           UNCHANGED <<flash, settled, posts, scan, elsewhere>>,
           Networks(nets', live', spent'), faults' \in 0..MaxFaults
    PROVE  PagesInv'
<1>1. Numbered(tab[t], SessionOf[t])
  BY DEF PagesInv, MessageInv
<1>2. Numbered(r, SessionOf[t])
  BY <1>1 DEF Numbered, Pending
<1> QED
  BY <1>2, TabStepKeeps

(* What soju keeps stays as it is.                                         *)
LEMMA NetworksStay ==
    ASSUME PagesInv, UNCHANGED soju
    PROVE  Networks(nets', live', spent')
BY DEF PagesInv, KnownInv, SojuInv, Networks, Free, soju

(* A tab that waits for nothing, after whatever post.                      *)
LEMMA BlankIsTab ==
    ASSUME NEW at \in Places, NEW id \in Ids \cup {0}, NEW form \in Network \cup {NoNet},
           NEW no \in 0..MaxPosts
    PROVE  /\ Blank \in Tab
           /\ [Blank EXCEPT !.at = at, !.id = id, !.form = form, !.no = no] \in Tab
           /\ [Blank EXCEPT !.at = at, !.id = id, !.no = no] \in Tab
           /\ [Blank EXCEPT !.at = at, !.id = id] \in Tab
           /\ [Blank EXCEPT !.at = at, !.no = no] \in Tab
           /\ [Blank EXCEPT !.at = at] \in Tab
<1>1. NoWant \in [do : {"none"}, field : {"name"}, value : {""}, net : {NoNet}, blank : {FALSE}]
  BY DEF NoWant
<1> DEFINE want == [NoWant EXCEPT !.do = "none"]
<1>2. want \in [do : {"none"}, field : {"name"}, value : {""}, net : {NoNet}, blank : {FALSE}]
  BY <1>1
<1>3. NoWant = want
  BY <1>1, <1>2
<1>4. NoWant \in Asked
  <2>1. want \in {[NoWant EXCEPT !.do = do] : do \in Deeds \cup {"none"}}
    OBVIOUS
  <2> HIDE DEF want
  <2> QED
    BY <1>3, <2>1 DEF Asked
<1>5. Blank \in Tab
  BY <1>4, BoundsAreNat DEF Blank, Tab, Places
<1> HIDE DEF Blank
<1>6. [Blank EXCEPT !.at = at] \in Tab
  BY <1>5 DEF Tab
<1>7. [Blank EXCEPT !.at = at, !.no = no] \in Tab
  BY <1>5 DEF Tab
<1>8. [Blank EXCEPT !.at = at, !.id = id] \in Tab
  BY <1>5 DEF Tab
<1>9. [Blank EXCEPT !.at = at, !.id = id, !.no = no] \in Tab
  BY <1>5 DEF Tab
<1>10. [Blank EXCEPT !.at = at, !.id = id, !.form = form, !.no = no] \in Tab
  BY <1>5 DEF Tab
<1> QED
  BY <1>5, <1>6, <1>7, <1>8, <1>9, <1>10

LEMMA LoadKeeps ==
    ASSUME PagesInv, NEW t \in Tabs, NEW i \in Ids, Load(t, i)
    PROVE  PagesInv'
<1> DEFINE r == [Blank EXCEPT
                !.at = "render",
                !.no = tab[t].no,
                !.id = IF i \in live THEN i ELSE 0,
                !.form = IF i \in live THEN [nets[i] EXCEPT !.pass = ""] ELSE NoNet]
<1>1. /\ SojuInv /\ TabInv /\ LockInv /\ ScanInv /\ CountInv /\ MessageInv
      /\ tab[t] \in Tab /\ Numbered(tab[t], SessionOf[t]) /\ tab[t].at \in {"page", "load"}
  BY DEF PagesInv, KnownInv, TabInv, MessageInv, Load, Asks
<1>2. tab' = [tab EXCEPT ![t] = r] /\ UNCHANGED <<nets, live, spent, flash, scan, posts, faults, elsewhere, settled>>
  BY DEF Load, soju
<1>3. i \in live => [nets[i] EXCEPT !.pass = ""] \in Network
  BY <1>1, FieldTypes DEF SojuInv
<1>4. r.at = "render" /\ r.no = tab[t].no /\ (r.id # 0 => r.form \in Network)
  BY <1>3 DEF Blank
<1>5. r \in Tab
  <2> DEFINE id == IF i \in live THEN i ELSE 0
             form == IF i \in live THEN [nets[i] EXCEPT !.pass = ""] ELSE NoNet
  <2>1. "render" \in Places /\ id \in Ids \cup {0} /\ form \in Network \cup {NoNet}
        /\ tab[t].no \in 0..MaxPosts
    BY <1>1, <1>3 DEF Tab, Places
  <2>2. r = [Blank EXCEPT !.at = "render", !.id = id, !.form = form, !.no = tab[t].no]
    BY DEF Blank
  <2> HIDE DEF id, form, r
  <2> QED
    BY <2>1, <2>2, BlankIsTab
<1>6. Sound(r)
  BY <1>4 DEF Sound
<1>7. Numbered(r, SessionOf[t])
  BY <1>1, <1>4 DEF Numbered, Pending
<1> HIDE DEF r
<1>8. Networks(nets', live', spent') /\ faults' \in 0..MaxFaults
  BY <1>1, <1>2, NetworksStay DEF soju, CountInv
<1> QED
  BY <1>2, <1>4, <1>5, <1>6, <1>7, <1>8, TabStepKeeps DEF Pending

LEMMA LoadListKeeps ==
    ASSUME PagesInv, NEW t \in Tabs, LoadList(t)
    PROVE  PagesInv'
<1> DEFINE r == [Blank EXCEPT !.at = "render", !.no = tab[t].no]
<1>1. /\ CountInv /\ tab[t] \in Tab /\ Numbered(tab[t], SessionOf[t]) /\ tab[t].at \in {"page", "load"}
  BY DEF PagesInv, KnownInv, TabInv, MessageInv, LoadList, Asks
<1>2. tab' = [tab EXCEPT ![t] = r] /\ UNCHANGED soju /\ UNCHANGED <<flash, scan, posts, faults, elsewhere, settled>>
  BY DEF LoadList
<1>3. r.at = "render" /\ r.no = tab[t].no /\ r.id = 0
  BY DEF Blank
<1>4. r \in Tab
  <2>1. "render" \in Places /\ tab[t].no \in 0..MaxPosts
    BY <1>1 DEF Tab, Places
  <2> QED
    BY <2>1, BlankIsTab
<1>5. Sound(r)
  BY <1>3 DEF Sound
<1>6. Numbered(r, SessionOf[t])
  BY <1>1, <1>3 DEF Numbered, Pending
<1> HIDE DEF r
<1>7. Networks(nets', live', spent') /\ faults' \in 0..MaxFaults
  BY <1>1, <1>2, NetworksStay DEF CountInv
<1> QED
  BY <1>2, <1>3, <1>4, <1>5, <1>6, <1>7, TabStepKeeps DEF Pending

LEMMA PostKeeps ==
    ASSUME PagesInv, NEW t \in Tabs, NEW want \in Wants, Post(t, want)
    PROVE  PagesInv'
<1> DEFINE form == IF want.do = "update" THEN tab[t].form ELSE NoNet
           at == IF want.blank /\ want.do # "sasl" THEN "back" ELSE "wait"
           r == [tab[t] EXCEPT !.want = want, !.no = posts + 1, !.form = form, !.at = at]
<1>1. /\ SojuInv /\ TabInv /\ LockInv /\ ScanInv /\ CountInv /\ MessageInv
      /\ tab[t] \in Tab /\ Sound(tab[t]) /\ tab[t].at = "page" /\ posts < MaxPosts
      /\ (tab[t].id = 0) = (want.do \in AtLarge)
  BY DEF PagesInv, KnownInv, TabInv, Post
<1>2. tab' = [tab EXCEPT ![t] = r]
  BY DEF Post, TabInv, Tab
<1>3. posts' = posts + 1 /\ UNCHANGED <<nets, live, spent, flash, scan, faults, elsewhere, settled>>
  BY DEF Post, soju
<1>4. want.do = "update" => form \in Network
  BY <1>1 DEF Sound, AtLarge
<1>5. /\ r.at = at /\ r.no = posts + 1 /\ r.want = want /\ r.form = form /\ r.id = tab[t].id
      /\ r.listed = tab[t].listed /\ r.try = tab[t].try /\ r.hit = tab[t].hit /\ r.ok = tab[t].ok
      /\ at \in {"wait", "back"}
  BY <1>1 DEF Tab
<1>11. posts \in Nat /\ MaxPosts \in Nat /\ posts + 1 \in 0..MaxPosts
  BY <1>1, BoundsAreNat DEF CountInv
<1>6. r \in Tab
  <2>1. form \in Network \cup {NoNet} /\ at \in Places /\ posts + 1 \in 0..MaxPosts /\ want \in Asked
    <3>1. form \in Network \cup {NoNet} /\ at \in Places
      BY <1>1 DEF Tab, Places
    <3>2. want \in Asked
      BY DEF Asked
    <3> QED
      BY <1>1, <1>11, <3>1, <3>2
  <2> HIDE DEF form, at
  <2> QED
    BY <1>1, <2>1 DEF Tab
<1>7. Sound(r)
  BY <1>4, <1>5 DEF Sound
<1> HIDE DEF r, at
<1>8. TabInv' /\ LockInv'
  BY <1>1, <1>2, <1>5, <1>6, <1>7, TabKeeps
<1>9. MessageInv'
  <2>1. tab'[t] = r /\ \A u \in Tabs \ {t} : tab'[u] = tab[u]
    BY <1>1, <1>2 DEF TabInv
  <2>2. posts \in Nat /\ posts' \in Nat /\ posts < posts' /\ settled \subseteq 1..posts
        /\ (\A s \in Sessions : flash[s] \in 0..posts) /\ \A u \in Tabs : tab[u].no \in 0..posts
    BY <1>1, <1>3 DEF MessageInv, Numbered
  <2>3. posts' \notin settled /\ (\A s \in Sessions : flash[s] # posts') /\ \A u \in Tabs : tab[u].no # posts'
    BY <2>2
  <2>4. settled \subseteq 1..posts' /\ flash \in [Sessions -> 0..posts']
    BY <1>1, <2>2 DEF MessageInv
  <2>5. ASSUME NEW u \in Tabs PROVE Numbered(tab[u], SessionOf[u])'
    <3>1. CASE u = t
      BY <1>3, <1>5, <2>1, <2>2, <2>3, <3>1 DEF Numbered, Pending
    <3>2. CASE u # t
      BY <1>1, <1>3, <2>1, <2>2, <3>2 DEF MessageInv, Numbered
    <3> QED
      BY <3>1, <3>2
  <2>6. \A u, v \in Tabs : tab'[u].at \in Pending /\ tab'[v].at \in Pending /\ tab'[u].no = tab'[v].no => u = v
    BY <1>1, <1>3, <1>5, <2>1, <2>3 DEF MessageInv
  <2> QED
    BY <1>1, <1>3, <2>2, <2>4, <2>5, <2>6 DEF MessageInv
<1>10. CountInv'
  BY <1>1, <1>3, <1>11 DEF CountInv
<1> QED
  BY <1>1, <1>3, <1>8, <1>9, <1>10 DEF PagesInv, KnownInv, SojuInv, ScanInv, Free

-----------------------------------------------------------------------------
(* The handlers.                                                           *)

LEMMA DoLockKeeps ==
    ASSUME PagesInv, NEW t \in Tabs, DoLock(t)
    PROVE  PagesInv'
<1> DEFINE r == [tab[t] EXCEPT !.at = First(tab[t].want.do)]
<1>1. CountInv /\ tab[t] \in Tab /\ Sound(tab[t]) /\ tab[t].at = "wait" /\ ~Locked(SessionOf[t])
  BY DEF PagesInv, KnownInv, TabInv, DoLock, MayLock
<1>2. tab' = [tab EXCEPT ![t] = r] /\ UNCHANGED soju /\ UNCHANGED <<flash, scan, posts, faults, elsewhere, settled>>
  BY DEF DoLock
<1>3. First(tab[t].want.do) \in {"list", "command"}
      /\ (First(tab[t].want.do) = "command" => tab[t].want.do \notin ByName)
  BY DEF First
<1>4. r \in Tab /\ r.at = First(tab[t].want.do) /\ r.no = tab[t].no /\ r.want = tab[t].want /\ r.form = tab[t].form
  BY <1>1, <1>3 DEF Tab, Places
<1>5. Sound(r)
  BY <1>1, <1>3, <1>4 DEF Sound
<1> HIDE DEF r
<1>6. Networks(nets', live', spent') /\ faults' \in 0..MaxFaults
  BY <1>1, <1>2, NetworksStay DEF CountInv
<1> QED
  BY <1>1, <1>2, <1>3, <1>4, <1>5, <1>6, HandlerKeeps DEF Pending

(* A handler that has its outcome still has its message.                   *)
LEMMA OutcomeIsTab ==
    ASSUME PagesInv, NEW t \in Tabs, tab[t].at \in {"list", "command"}
    PROVE  /\ Outcome(t) \in Tab /\ Sound(Outcome(t))
           /\ Outcome(t).at = "back" /\ Outcome(t).no = tab[t].no
<1> DEFINE w == [NoWant EXCEPT !.do = tab[t].want.do]
           a == [tab[t] EXCEPT !.at = "back"]
           b == [a EXCEPT !.form = NoNet]
           c == [b EXCEPT !.listed = NoNet]
           d == [c EXCEPT !.try = 1]
           r == [d EXCEPT !.want = w]
<1>1. tab[t] \in Tab /\ tab[t].want \in Wants
  BY DEF PagesInv, KnownInv, TabInv, Sound
<1>2. w \in Asked
  BY <1>1, WantTypes DEF Asked
<1> HIDE DEF w
<1>3. a \in Tab
  BY <1>1 DEF Tab, Places
<1>4. b \in Tab /\ b.no = tab[t].no /\ b.at = "back"
  BY <1>1, <1>3 DEF Tab
<1> HIDE DEF a
<1>5. c \in Tab /\ c.no = tab[t].no /\ c.at = "back"
  BY <1>4 DEF Tab
<1> HIDE DEF b
<1>6. d \in Tab /\ d.no = tab[t].no /\ d.at = "back"
  <2>1. 1 \in 1..2
    OBVIOUS
  <2> QED
    BY <1>5, <2>1 DEF Tab
<1> HIDE DEF c
<1>7. r \in Tab /\ r.no = tab[t].no /\ r.at = "back"
  BY <1>2, <1>6 DEF Tab
<1> HIDE DEF d
<1>8. r = Outcome(t)
  BY <1>1 DEF Outcome, a, b, c, d, w, Tab
<1> HIDE DEF r
<1> QED
  BY <1>7, <1>8 DEF Sound

(* That a command was carried out, or called a success, changes nothing.   *)
LEMMA MarkedIsSound ==
    ASSUME NEW r \in Tab, Sound(r), NEW q \in Tab,
           q.at = r.at, q.want = r.want, q.form = r.form, q.listed = r.listed, q.id = r.id
    PROVE  Sound(q)
BY DEF Sound

(* A handler whose call failed has its outcome, or begins again.           *)
LEMMA FailedIsTab ==
    ASSUME PagesInv, NEW t \in Tabs, tab[t].at \in {"list", "command"}, NEW r \in Failed(t)
    PROVE  /\ r \in Tab /\ Sound(r)
           /\ r.at \in {"list", "command", "back"} /\ r.no = tab[t].no
           /\ r.at = "back" \/ r.try # tab[t].try
<1> DEFINE again == [tab[t] EXCEPT !.at = First(tab[t].want.do), !.try = 2, !.listed = NoNet]
           a == [tab[t] EXCEPT !.at = First(tab[t].want.do)]
           b == [a EXCEPT !.try = 2]
<1>1. tab[t] \in Tab /\ Sound(tab[t])
  BY DEF PagesInv, KnownInv, TabInv
<1>2. First(tab[t].want.do) \in {"list", "command"}
      /\ (First(tab[t].want.do) = "command" => tab[t].want.do \notin ByName)
  BY DEF First
<1>3. a \in Tab /\ a.at = First(tab[t].want.do) /\ a.no = tab[t].no /\ a.want = tab[t].want /\ a.form = tab[t].form
  BY <1>1, <1>2 DEF Tab, Places
<1> HIDE DEF a
<1>4. b \in Tab /\ b.at = a.at /\ b.no = a.no /\ b.want = a.want /\ b.form = a.form /\ b.try = 2
  <2>1. 2 \in 1..2
    OBVIOUS
  <2> QED
    BY <1>3, <2>1 DEF Tab
<1> HIDE DEF b
<1>5. again = [b EXCEPT !.listed = NoNet]
  BY <1>1 DEF a, b, Tab
<1> HIDE DEF again
<1>6. /\ again \in Tab /\ again.at = First(tab[t].want.do) /\ again.no = tab[t].no
      /\ again.want = tab[t].want /\ again.form = tab[t].form /\ again.try = 2
  BY <1>3, <1>4, <1>5 DEF Tab
<1>7. Sound(again)
  BY <1>1, <1>2, <1>6 DEF Sound
<1>8. r = Outcome(t) \/ (r = again /\ tab[t].try = 1)
  BY DEF Failed, again
<1> QED
  BY <1>2, <1>6, <1>7, <1>8, OutcomeIsTab

LEMMA ListKeeps ==
    ASSUME PagesInv, NEW t \in Tabs, List(t)
    PROVE  PagesInv'
<1> DEFINE found == [tab[t] EXCEPT !.at = "command", !.listed = nets[tab[t].id]]
           a == [tab[t] EXCEPT !.at = "command"]
<1>1. CountInv /\ tab[t] \in Tab /\ Sound(tab[t]) /\ tab[t].at = "list" /\ SojuInv
  BY DEF PagesInv, KnownInv, TabInv, List
<1>2. /\ \/ tab' = [tab EXCEPT ![t] = found] /\ tab[t].id \in live
         \/ tab' = [tab EXCEPT ![t] = Outcome(t)]
      /\ UNCHANGED soju /\ UNCHANGED <<flash, scan, posts, faults, elsewhere, settled>>
  BY DEF List
<1>3. ASSUME tab[t].id \in live
      PROVE  found \in Tab /\ Sound(found) /\ found.at = "command" /\ found.no = tab[t].no
  <2>1. nets[tab[t].id] \in Network
    BY <1>1, <1>3 DEF SojuInv
  <2>2. /\ a \in Tab /\ a.at = "command" /\ a.no = tab[t].no /\ a.want = tab[t].want
        /\ a.form = tab[t].form
    BY <1>1 DEF Tab, Places
  <2>3. found = [a EXCEPT !.listed = nets[tab[t].id]]
    BY <1>1 DEF Tab
  <2> HIDE DEF a, found
  <2>4. /\ found \in Tab /\ found.at = "command" /\ found.no = tab[t].no /\ found.want = tab[t].want
        /\ found.form = tab[t].form /\ found.listed \in Network
    BY <2>1, <2>2, <2>3 DEF Tab
  <2> QED
    BY <1>1, <2>4 DEF Sound
<1>4. \E r \in Tab : Sound(r) /\ tab' = [tab EXCEPT ![t] = r] /\ r.at \in {"command", "back"} /\ r.no = tab[t].no
  BY <1>1, <1>2, <1>3, OutcomeIsTab
<1>5. InDo(t) /\ tab[t].at \in Pending
  BY <1>1 DEF InDo, Pending
<1>6. Networks(nets', live', spent') /\ faults' \in 0..MaxFaults
  BY <1>1, <1>2, NetworksStay DEF CountInv
<1> QED
  BY <1>2, <1>4, <1>5, <1>6, HandlerKeeps DEF Pending

LEMMA CommandKeeps ==
    ASSUME PagesInv, NEW t \in Tabs, Command(t)
    PROVE  PagesInv'
<1>1. KnownInv /\ CountInv /\ tab[t] \in Tab /\ tab[t].at = "command" /\ InDo(t) /\ tab[t].at \in Pending
  BY DEF PagesInv, KnownInv, TabInv, Command, InDo, Pending
<1>2. PICK e \in Effects(t) :
         /\ CarryOut(e)
         /\ tab' = [tab EXCEPT ![t] =
                IF e.ok /\ tab[t].want.do = "ask"
                THEN Confirmation
                ELSE [Outcome(t) EXCEPT !.hit = e.hit, !.ok = e.ok]]
  BY DEF Command
<1>3. UNCHANGED <<flash, scan, posts, faults, elsewhere, settled>>
  BY DEF Command
<1>4. e.hit \in Ids \cup {0} /\ e.ok \in BOOLEAN /\ Networks(nets', live', spent')
  BY <1>1, <1>2, EffectIsProper DEF Proper, CarryOut
<1>5. faults' \in 0..MaxFaults
  BY <1>1, <1>3 DEF CountInv
<1>6. CASE e.ok /\ tab[t].want.do = "ask"
  <2>1. Confirmation \in Tab /\ Confirmation.at = "render" /\ Confirmation.no = 0 /\ Confirmation.id = 0
    <3>1. "render" \in Places /\ 0 \in 0..MaxPosts
      BY BoundsAreNat DEF Places
    <3> QED
      BY <3>1, BlankIsTab DEF Confirmation, Blank
  <2>2. Sound(Confirmation)
    BY <2>1 DEF Sound
  <2>3. Numbered(Confirmation, SessionOf[t])
    BY <2>1 DEF Numbered, Pending, PagesInv, MessageInv
  <2>4. tab' = [tab EXCEPT ![t] = Confirmation]
    BY <1>2, <1>6
  <2> QED
    BY <1>3, <1>4, <1>5, <2>1, <2>2, <2>3, <2>4, TabStepKeeps DEF Pending
<1>7. CASE ~(e.ok /\ tab[t].want.do = "ask")
  <2> DEFINE r == [Outcome(t) EXCEPT !.hit = e.hit, !.ok = e.ok]
  <2>1. r \in Tab /\ Sound(r) /\ r.at = "back" /\ r.no = tab[t].no
    <3>1. Outcome(t) \in Tab /\ Sound(Outcome(t)) /\ Outcome(t).at = "back" /\ Outcome(t).no = tab[t].no
      BY <1>1, OutcomeIsTab
    <3>2. PICK o \in Tab : o = Outcome(t)
      BY <3>1
    <3>3. r = [[o EXCEPT !.hit = e.hit] EXCEPT !.ok = e.ok]
      BY <3>2 DEF Tab
    <3> HIDE DEF r
    <3>4. [o EXCEPT !.hit = e.hit] \in Tab
      BY <1>4, <3>2 DEF Tab
    <3>5. /\ r \in Tab /\ r.at = o.at /\ r.no = o.no /\ r.want = o.want
          /\ r.form = o.form /\ r.listed = o.listed /\ r.id = o.id
      BY <1>4, <3>2, <3>3, <3>4 DEF Tab
    <3>6. Sound(o)
      BY <3>1, <3>2
    <3> QED
      BY <3>1, <3>2, <3>5, <3>6, MarkedIsSound
  <2>2. tab' = [tab EXCEPT ![t] = r]
    BY <1>2, <1>7
  <2> HIDE DEF r
  <2> QED
    BY <1>1, <1>3, <1>4, <1>5, <2>1, <2>2, HandlerKeeps DEF Pending
<1> QED
  BY <1>6, <1>7

LEMMA ListFailsKeeps ==
    ASSUME PagesInv, NEW t \in Tabs, ListFails(t)
    PROVE  PagesInv'
<1>1. CountInv /\ tab[t].at = "list" /\ InDo(t) /\ tab[t].at \in Pending
  BY DEF PagesInv, KnownInv, ListFails, InDo, Pending
<1>2. faults' \in 0..MaxFaults
  BY <1>1, BoundsAreNat DEF ListFails, CountInv
<1>3. PICK r \in Failed(t) : tab' = [tab EXCEPT ![t] = r]
  BY DEF ListFails
<1>4. r \in Tab /\ Sound(r) /\ r.at \in {"list", "command", "back"} /\ r.no = tab[t].no
  BY <1>1, FailedIsTab
<1>5. Networks(nets', live', spent') /\ UNCHANGED <<flash, scan, posts, elsewhere, settled>>
  BY NetworksStay DEF ListFails
<1> QED
  BY <1>1, <1>2, <1>3, <1>4, <1>5, HandlerKeeps DEF Pending

LEMMA CommandFailsKeeps ==
    ASSUME PagesInv, NEW t \in Tabs, CommandFails(t)
    PROVE  PagesInv'
<1>1. KnownInv /\ CountInv /\ tab[t].at = "command" /\ InDo(t) /\ tab[t].at \in Pending
  BY DEF PagesInv, KnownInv, CommandFails, InDo, Pending
<1>2. faults' \in 0..MaxFaults
  BY <1>1, BoundsAreNat DEF CommandFails, CountInv
<1>3. PICK e \in Effects(t), next \in Failed(t) :
         CarryOut(e) /\ tab' = [tab EXCEPT ![t] = [next EXCEPT !.hit = e.hit]]
  BY DEF CommandFails
<1> DEFINE r == [next EXCEPT !.hit = e.hit]
<1>4. e.hit \in Ids \cup {0} /\ Networks(nets', live', spent')
  BY <1>1, <1>3, EffectIsProper DEF Proper, CarryOut
<1>5. r \in Tab /\ Sound(r) /\ r.at \in {"list", "command", "back"} /\ r.no = tab[t].no
  <2>1. next \in Tab /\ Sound(next) /\ next.at \in {"list", "command", "back"} /\ next.no = tab[t].no
    BY <1>1, FailedIsTab
  <2>2. /\ r \in Tab /\ r.at = next.at /\ r.no = next.no /\ r.want = next.want
        /\ r.form = next.form /\ r.listed = next.listed /\ r.id = next.id
    BY <1>4, <2>1 DEF Tab
  <2> HIDE DEF r
  <2> QED
    BY <2>1, <2>2, MarkedIsSound
<1>6. UNCHANGED <<flash, scan, posts, elsewhere, settled>> /\ tab' = [tab EXCEPT ![t] = r]
  BY <1>3 DEF CommandFails
<1> HIDE DEF r
<1> QED
  BY <1>1, <1>2, <1>4, <1>5, <1>6, HandlerKeeps DEF Pending

-----------------------------------------------------------------------------
(* Messages are left and shown.                                            *)

LEMMA BackKeeps ==
    ASSUME PagesInv, NEW t \in Tabs, Back(t)
    PROVE  PagesInv'
<1> DEFINE s == SessionOf[t]
           loud == [Blank EXCEPT !.at = "load", !.id = Target(t), !.no = tab[t].no]
           mute == [Blank EXCEPT !.at = "load", !.id = Target(t)]
<1>1. /\ CountInv /\ TabInv /\ LockInv /\ ScanInv /\ MessageInv /\ tab[t] \in Tab /\ tab[t].at = "back"
      /\ Numbered(tab[t], s) /\ s \in Sessions
  BY PagesAssumption DEF PagesInv, KnownInv, TabInv, MessageInv, Back
<1>2. Target(t) \in Ids \cup {0} /\ "load" \in Places /\ tab[t].no \in 0..MaxPosts
  BY <1>1 DEF Target, Tab, Places
<1>3. Networks(nets', live', spent') /\ UNCHANGED <<scan, posts, faults, elsewhere>>
  BY NetworksStay DEF Back
<1>4. /\ loud \in Tab /\ loud.at = "load" /\ loud.no = tab[t].no
      /\ mute \in Tab /\ mute.at = "load" /\ mute.no = 0
  <2>1. loud \in Tab /\ mute \in Tab
    <3>1. NoNet \in Network \cup {NoNet}
      OBVIOUS
    <3> QED
      BY <1>2, <3>1, BlankIsTab
  <2>2. loud.at = "load" /\ loud.no = tab[t].no /\ mute.at = "load" /\ mute.no = 0
    BY DEF Blank
  <2> QED
    BY <2>1, <2>2
<1>5. Sound(loud) /\ Sound(mute)
  BY <1>4 DEF Sound
<1>6. CASE tab' = [tab EXCEPT ![t] = mute] /\ UNCHANGED <<flash, settled>>
  <2> HIDE DEF mute
  <2>1. Numbered(mute, s)
    BY <1>1, <1>4 DEF Numbered, Pending, MessageInv
  <2>2. faults' \in 0..MaxFaults
    BY <1>1, <1>3 DEF CountInv
  <2> QED
    BY <1>3, <1>4, <1>5, <1>6, <2>1, <2>2, TabStepKeeps DEF Pending
<1>7. CASE /\ flash' = [flash EXCEPT ![s] = tab[t].no]
           /\ settled' = settled \cup ({flash[s]} \ {NoFlash})
           /\ tab' = [tab EXCEPT ![t] = loud]
  <2> HIDE DEF loud, s
  <2>1. tab'[t] = loud /\ \A u \in Tabs \ {t} : tab'[u] = tab[u]
    BY <1>1, <1>7 DEF TabInv
  <2>2. TabInv' /\ LockInv'
    BY <1>1, <1>4, <1>5, <1>7, TabKeeps
  <2>3. PICK n \in 1..posts : n = tab[t].no
    BY <1>1 DEF Numbered, Pending, MessageInv
  <2>4. n \notin settled /\ \A u \in Sessions : flash[u] # n
    BY <1>1, <2>3 DEF Numbered, Pending
  <2>5. flash'[s] = n /\ \A u \in Sessions \ {s} : flash'[u] = flash[u]
    BY <1>1, <1>7, <2>3 DEF MessageInv
  <2>6. flash' \in [Sessions -> 0..posts] /\ settled' \subseteq 1..posts
    <3>1. posts \in Nat /\ flash \in [Sessions -> 0..posts] /\ settled \subseteq 1..posts
      BY <1>1 DEF MessageInv
    <3>2. (flash[s] # 0 => flash[s] \in 1..posts) /\ n \in 0..posts
      BY <1>1, <2>3, <3>1
    <3>3. flash' \in [Sessions -> 0..posts]
      BY <1>7, <2>3, <3>1, <3>2
    <3>4. settled' \subseteq 1..posts
      BY <1>7, <3>1, <3>2 DEF NoFlash
    <3> QED
      BY <3>3, <3>4
  <2>7. \A u \in Sessions : flash'[u] \notin settled'
    <3>1. \A u \in Sessions : flash[u] = flash[s] => flash[u] = 0 \/ u = s
      BY <1>1 DEF MessageInv
    <3>2. \A u \in Sessions : flash[u] \notin settled
      BY <1>1 DEF MessageInv
    <3> QED
      BY <1>1, <1>7, <2>4, <2>5, <3>1, <3>2 DEF NoFlash
  <2>8. \A u, v \in Sessions : flash'[u] = flash'[v] => flash'[u] = 0 \/ u = v
    BY <1>1, <2>4, <2>5 DEF MessageInv
  <2>9. ASSUME NEW u \in Tabs PROVE Numbered(tab[u], SessionOf[u])'
    <3>1. CASE u = t
      BY <1>3, <1>4, <2>1, <2>3, <2>5, <3>1 DEF Numbered, Pending, s
    <3>2. CASE u # t
      <4>1. Numbered(tab[u], SessionOf[u]) /\ SessionOf[u] \in Sessions
        BY <1>1, PagesAssumption DEF MessageInv
      <4>2. tab[u].at \in Pending => tab[u].no # n
        BY <1>1, <2>3, <3>2 DEF MessageInv, Pending
      <4>3. tab[u].at \in Pending => tab[u].no # 0 /\ tab[u].no \notin settled' /\ \A v \in Sessions : flash'[v] # tab[u].no
        BY <1>1, <1>7, <2>5, <4>1, <4>2 DEF Numbered
      <4>4. tab[u].at \in {"load", "render"} => tab[u].no \in settled' \cup {0, flash'[SessionOf[u]]}
        BY <1>7, <2>5, <4>1 DEF Numbered, NoFlash
      <4> QED
        BY <1>3, <2>1, <3>2, <4>1, <4>3, <4>4 DEF Numbered
    <3> QED
      BY <3>1, <3>2
  <2>10. \A u, v \in Tabs : tab'[u].at \in Pending /\ tab'[v].at \in Pending /\ tab'[u].no = tab'[v].no => u = v
    BY <1>1, <1>4, <2>1 DEF MessageInv, Pending
  <2>11. MessageInv'
    BY <1>1, <1>3, <2>6, <2>7, <2>8, <2>9, <2>10 DEF MessageInv
  <2>12. SojuInv'
    BY <1>3 DEF SojuInv, Networks, Free
  <2> QED
    BY <1>1, <1>3, <2>2, <2>11, <2>12 DEF PagesInv, KnownInv, ScanInv, CountInv
<1> QED
  BY <1>6, <1>7 DEF Back

LEMMA RenderKeeps ==
    ASSUME PagesInv, NEW t \in Tabs, Render(t)
    PROVE  PagesInv'
<1> DEFINE s == SessionOf[t]
           r == [tab[t] EXCEPT !.at = "page", !.no = 0]
<1>1. /\ CountInv /\ TabInv /\ LockInv /\ ScanInv /\ MessageInv /\ tab[t] \in Tab /\ tab[t].at = "render"
      /\ Sound(tab[t]) /\ s \in Sessions
  BY PagesAssumption DEF PagesInv, KnownInv, TabInv, MessageInv, Render
<1>2. /\ tab' = [tab EXCEPT ![t] = r]
      /\ settled' = settled \cup ({flash[s]} \ {0}) /\ flash' = [flash EXCEPT ![s] = 0]
      /\ UNCHANGED <<scan, posts, faults, elsewhere>>
  <2>1. tab' = [tab EXCEPT ![t].at = "page", ![t].no = 0]
    BY DEF Render
  <2>2. tab' = [tab EXCEPT ![t] = r]
    BY <1>1, <2>1 DEF TabInv
  <2> QED
    BY <2>2 DEF Render, NoFlash, Taken
<1>3. /\ r \in Tab /\ r.at = "page" /\ r.no = 0 /\ r.id = tab[t].id /\ r.form = tab[t].form
  <2> DEFINE a == [tab[t] EXCEPT !.at = "page"]
  <2>1. a \in Tab /\ a.at = "page" /\ a.id = tab[t].id /\ a.form = tab[t].form
    BY <1>1 DEF Tab, Places
  <2>2. r = [a EXCEPT !.no = 0] /\ 0 \in 0..MaxPosts
    BY <1>1, BoundsAreNat DEF Tab
  <2> HIDE DEF a, r
  <2> QED
    BY <2>1, <2>2 DEF Tab
<1>4. Sound(r)
  BY <1>1, <1>3 DEF Sound
<1> HIDE DEF r, s
<1>5. TabInv' /\ LockInv'
  BY <1>1, <1>2, <1>3, <1>4, TabKeeps
<1>6. tab'[t] = r /\ \A u \in Tabs \ {t} : tab'[u] = tab[u]
  BY <1>1, <1>2 DEF TabInv
<1>7. flash'[s] = 0 /\ \A u \in Sessions \ {s} : flash'[u] = flash[u]
  BY <1>1, <1>2 DEF MessageInv
<1>8. posts \in Nat /\ flash' \in [Sessions -> 0..posts] /\ settled' \subseteq 1..posts
  <2>1. posts \in Nat /\ 0 \in 0..posts /\ flash \in [Sessions -> 0..posts] /\ settled \subseteq 1..posts
    BY <1>1 DEF MessageInv
  <2> QED
    <3>1. flash[s] # 0 => flash[s] \in 1..posts
      BY <1>1, <2>1
    <3>2. flash' \in [Sessions -> 0..posts]
      BY <1>2, <2>1
    <3>3. settled' \subseteq 1..posts
      BY <1>2, <2>1, <3>1
    <3> QED
      BY <2>1, <3>2, <3>3
<1>9. \A u \in Sessions : flash'[u] \notin settled'
  <2>1. \A u \in Sessions : flash[u] = flash[s] => flash[u] = 0 \/ u = s
    BY <1>1 DEF MessageInv
  <2>2. \A u \in Sessions : flash[u] \notin settled
    BY <1>1 DEF MessageInv
  <2>3. 0 \notin settled'
    BY <1>8
  <2> QED
    BY <1>2, <1>7, <2>1, <2>2, <2>3
<1>10. \A u, v \in Sessions : flash'[u] = flash'[v] => flash'[u] = 0 \/ u = v
  BY <1>1, <1>7 DEF MessageInv
<1>11. ASSUME NEW u \in Tabs PROVE Numbered(tab[u], SessionOf[u])'
  <2>1. CASE u = t
    BY <1>2, <1>3, <1>6, <1>8, <2>1 DEF Numbered, Pending
  <2>2. CASE u # t
    <3>1. Numbered(tab[u], SessionOf[u]) /\ SessionOf[u] \in Sessions
      BY <1>1, PagesAssumption DEF MessageInv
    <3>2. tab[u].at \in Pending => tab[u].no # 0 /\ tab[u].no \notin settled' /\ \A v \in Sessions : flash'[v] # tab[u].no
      BY <1>1, <1>2, <1>7, <3>1 DEF Numbered
    <3>3. tab[u].at \in {"load", "render"} => tab[u].no \in settled' \cup {0, flash'[SessionOf[u]]}
      BY <1>2, <1>7, <3>1 DEF Numbered
    <3> QED
      BY <1>2, <1>6, <2>2, <3>1, <3>2, <3>3 DEF Numbered
  <2> QED
    BY <2>1, <2>2
<1>12. \A u, v \in Tabs : tab'[u].at \in Pending /\ tab'[v].at \in Pending /\ tab'[u].no = tab'[v].no => u = v
  BY <1>1, <1>3, <1>6 DEF MessageInv, Pending
<1>13. MessageInv'
  BY <1>2, <1>8, <1>9, <1>10, <1>11, <1>12 DEF MessageInv
<1>14. SojuInv'
  <2>1. Networks(nets', live', spent')
    BY NetworksStay DEF Render
  <2> QED
    BY <2>1 DEF SojuInv, Networks, Free
<1> QED
  BY <1>1, <1>2, <1>5, <1>13, <1>14 DEF PagesInv, KnownInv, ScanInv, CountInv

-----------------------------------------------------------------------------
(* The watcher, and everybody else.                                        *)

(* A step that changes no tab and no message.                              *)
LEMMA AsideKeeps ==
    ASSUME PagesInv, UNCHANGED <<tab, flash, settled, posts, faults>>,
           Networks(nets', live', spent'), ScanInv', elsewhere' \in 0..MaxElsewhere
    PROVE  PagesInv'
<1>1. SojuInv'
  BY DEF SojuInv, Networks, Free
<1>2. TabInv' /\ LockInv' /\ CountInv'
  BY DEF PagesInv, KnownInv, TabInv, LockInv, InDo, CountInv
<1>3. MessageInv'
  BY DEF PagesInv, MessageInv, Numbered
<1> QED
  BY <1>1, <1>2, <1>3 DEF PagesInv, KnownInv

(* A reconnect leaves sound networks.                                      *)
LEMMA ReaddressedIsSound ==
    ASSUME SojuInv, NEW listed \in Network, NEW e \in Readdressed(listed)
    PROVE  Networks(e.nets, e.live, e.spent)
<1>1. PICK i \in Reached(Name(listed)) :
         e = Success(i, [nets[i] EXCEPT !.host = Addr(listed).host, !.tls = Addr(listed).tls])
  BY DEF Readdressed
<1> DEFINE n == [nets[i] EXCEPT !.host = Addr(listed).host, !.tls = Addr(listed).tls]
<1>2. i \in live /\ i \in Ids /\ nets[i] \in Network /\ Free(nets[i].name, i)
  BY DEF Reached, SojuInv
<1>3. n \in Network /\ n.name = nets[i].name
  BY <1>2, AddrKeeps
<1> HIDE DEF n
<1>4. Networks([nets EXCEPT ![i] = n], live \cup {i}, spent \cup {i})
  BY <1>2, <1>3, Replaced
<1>5. e.nets = [nets EXCEPT ![i] = n] /\ e.live = live /\ e.spent = spent
  BY <1>1 DEF Success, Refusal, n
<1>6. live \cup {i} = live /\ spent \cup {i} = spent
  BY <1>2 DEF SojuInv
<1> QED
  BY <1>4, <1>5, <1>6

LEMMA WatchListKeeps ==
    ASSUME PagesInv, NEW i \in Watched, WatchList(i)
    PROVE  PagesInv'
<1>1. SojuInv /\ CountInv /\ i \in live /\ scan' = [id |-> i, listed |-> nets[i]]
  BY DEF PagesInv, KnownInv, WatchList
<1>2. ScanInv'
  BY <1>1 DEF SojuInv, ScanInv
<1>3. UNCHANGED <<tab, flash, settled, posts, faults, elsewhere>> /\ UNCHANGED soju
  BY DEF WatchList
<1>4. Networks(nets', live', spent') /\ elsewhere' \in 0..MaxElsewhere
  BY <1>1, <1>3, NetworksStay DEF CountInv
<1> QED
  BY <1>2, <1>3, <1>4, AsideKeeps

LEMMA WatchReconnectKeeps ==
    ASSUME PagesInv, WatchReconnect
    PROVE  PagesInv'
<1>1. SojuInv /\ CountInv /\ scan.listed \in Network
  BY DEF PagesInv, KnownInv, ScanInv, WatchReconnect
<1>2. PICK e \in {Refusal} \cup Readdressed(scan.listed) : CarryOut(e)
  BY DEF WatchReconnect
<1>3. Networks(e.nets, e.live, e.spent)
  BY <1>1, ReaddressedIsSound, SojuNetworks DEF Refusal
<1>4. Networks(nets', live', spent')
  BY <1>2, <1>3 DEF CarryOut
<1>5. ScanInv'
  BY DEF WatchReconnect, NoScan, ScanInv
<1>6. UNCHANGED <<tab, flash, settled, posts, faults, elsewhere>>
  BY DEF WatchReconnect
<1>7. elsewhere' \in 0..MaxElsewhere
  BY <1>1, <1>6 DEF CountInv
<1> QED
  BY <1>4, <1>5, <1>6, <1>7, AsideKeeps

LEMMA ElsewhereKeeps ==
    ASSUME PagesInv, NEW i \in Ids, Elsewhere(i)
    PROVE  PagesInv'
<1>1. SojuInv /\ CountInv /\ ScanInv /\ i \in live /\ nets[i] \in Network
  BY DEF PagesInv, KnownInv, SojuInv, Elsewhere
<1>2. live \cup {i} = live /\ spent \cup {i} = spent
  BY <1>1 DEF SojuInv
<1>3. UNCHANGED <<spent, tab, flash, scan, posts, faults, settled>>
  BY DEF Elsewhere
<1>4. elsewhere' \in 0..MaxElsewhere
  BY <1>1, BoundsAreNat DEF Elsewhere, CountInv
<1>5. ScanInv'
  BY <1>1, <1>3 DEF ScanInv
<1>6. Networks(nets', live', spent')
  <2>1. ASSUME NEW name \in Names, Free(name, i), nets' = [nets EXCEPT ![i].name = name], live' = live
        PROVE  Networks(nets', live', spent')
    <3>1. [nets[i] EXCEPT !.name = name] \in Network /\ [nets[i] EXCEPT !.name = name].name = name
      BY <1>1, FieldTypes DEF Network
    <3>2. nets' = [nets EXCEPT ![i] = [nets[i] EXCEPT !.name = name]]
      BY <2>1 DEF SojuInv
    <3> QED
      BY <1>1, <1>2, <1>3, <2>1, <3>1, <3>2, Replaced
  <2>2. ASSUME NEW host \in Hosts, nets' = [nets EXCEPT ![i].host = host], live' = live
        PROVE  Networks(nets', live', spent')
    <3>1. [nets[i] EXCEPT !.host = host] \in Network /\ [nets[i] EXCEPT !.host = host].name = nets[i].name
      BY <1>1, FieldTypes DEF Network
    <3>2. nets' = [nets EXCEPT ![i] = [nets[i] EXCEPT !.host = host]]
      BY <2>2 DEF SojuInv
    <3>3. Free(nets[i].name, i)
      BY <1>1 DEF SojuInv
    <3> QED
      BY <1>1, <1>2, <1>3, <2>2, <3>1, <3>2, <3>3, Replaced
  <2>3. ASSUME nets' = [nets EXCEPT ![i] = NoNet], live' = live \ {i}
        PROVE  Networks(nets', live', spent')
    BY <1>1, <1>3, <2>3, Removed
  <2> QED
    BY <2>1, <2>2, <2>3 DEF Elsewhere
<1> QED
  BY <1>3, <1>4, <1>5, <1>6, AsideKeeps

-----------------------------------------------------------------------------

(* The inductive invariant of Pages.                                       *)
LEMMA Invariant == Spec => []PagesInv
<1>1. Init => PagesInv
  <2> SUFFICES ASSUME Init
               PROVE  PagesInv
    OBVIOUS
  <2>1. SojuInv
    <3>1. nets = [i \in Ids |-> IF i \in FirstIds THEN FirstNets[i] ELSE NoNet] /\ live = FirstIds /\ spent = FirstIds
      BY DEF Init
    <3>2. FirstIds \subseteq Ids /\ FirstNets \in [FirstIds -> Network]
      BY PagesAssumption
    <3>3. \A i, j \in FirstIds : FirstNets[i].name = FirstNets[j].name => FirstNets[i].name = "" \/ i = j
      BY PagesAssumption
    <3> QED
      BY <3>1, <3>2, <3>3 DEF SojuInv, Free
  <2>2. Blank \in Tab /\ Sound(Blank) /\ Blank.at = "page" /\ Blank.no = 0
    <3>1. "page" \in Places /\ 0 \in 0..MaxPosts /\ [Blank EXCEPT !.at = "page", !.no = 0] \in Tab
      <4>1. "page" \in Places /\ 0 \in 0..MaxPosts
        BY BoundsAreNat DEF Places
      <4> QED
        BY <4>1, BlankIsTab
    <3>2. Blank.at = "page" /\ Blank.no = 0 /\ Blank.id = 0
      BY DEF Blank
    <3>3. Blank \in Tab
      <4>1. "page" \in Places /\ 0 \in Ids \cup {0} /\ NoNet \in Network \cup {NoNet} /\ 0 \in 0..MaxPosts
        BY <3>1
      <4> QED
        BY <4>1, BlankIsTab
    <3> QED
      BY <3>2, <3>3 DEF Sound
  <2> HIDE DEF Blank
  <2>3. tab = [t \in Tabs |-> Blank] /\ flash = [s \in Sessions |-> 0] /\ scan = NoScan
        /\ posts = 0 /\ faults = 0 /\ elsewhere = 0 /\ settled = {}
    BY DEF Init, NoFlash
  <2>4. TabInv /\ LockInv
    BY <2>2, <2>3 DEF TabInv, LockInv, InDo
  <2>5. ScanInv /\ CountInv
    BY <2>3, BoundsAreNat DEF ScanInv, NoScan, CountInv
  <2>6. MessageInv
    BY <2>2, <2>3 DEF MessageInv, Numbered, Pending
  <2> QED
    BY <2>1, <2>4, <2>5, <2>6 DEF PagesInv, KnownInv
<1>2. PagesInv /\ [Next]_vars => PagesInv'
  <2> SUFFICES ASSUME PagesInv, [Next]_vars
               PROVE  PagesInv'
    OBVIOUS
  <2>1. ASSUME NEW t \in Tabs, NEW i \in Ids, Load(t, i)
        PROVE  PagesInv'
    BY <2>1, LoadKeeps
  <2>2. ASSUME NEW t \in Tabs, NEW want \in Wants, Post(t, want)
        PROVE  PagesInv'
    BY <2>2, PostKeeps
  <2>3. ASSUME NEW t \in Tabs, LoadList(t)
        PROVE  PagesInv'
    BY <2>3, LoadListKeeps
  <2>4. ASSUME NEW t \in Tabs, DoLock(t)
        PROVE  PagesInv'
    BY <2>4, DoLockKeeps
  <2>5. ASSUME NEW t \in Tabs, List(t)
        PROVE  PagesInv'
    BY <2>5, ListKeeps
  <2>6. ASSUME NEW t \in Tabs, Command(t)
        PROVE  PagesInv'
    BY <2>6, CommandKeeps
  <2>7. ASSUME NEW t \in Tabs, ListFails(t)
        PROVE  PagesInv'
    BY <2>7, ListFailsKeeps
  <2>8. ASSUME NEW t \in Tabs, CommandFails(t)
        PROVE  PagesInv'
    BY <2>8, CommandFailsKeeps
  <2>9. ASSUME NEW t \in Tabs, Back(t)
        PROVE  PagesInv'
    BY <2>9, BackKeeps
  <2>10. ASSUME NEW t \in Tabs, Render(t)
         PROVE  PagesInv'
    BY <2>10, RenderKeeps
  <2>11. ASSUME NEW i \in Watched, WatchList(i)
         PROVE  PagesInv'
    BY <2>11, WatchListKeeps
  <2>12. ASSUME NEW i \in Ids, Elsewhere(i)
         PROVE  PagesInv'
    BY <2>12, ElsewhereKeeps
  <2>13. CASE WatchReconnect
    BY <2>13, WatchReconnectKeeps
  <2>14. CASE UNCHANGED vars
    <3>1. Networks(nets', live', spent') /\ UNCHANGED <<tab, flash, settled, posts, faults, scan, elsewhere>>
      BY <2>14, NetworksStay DEF vars, soju
    <3>2. ScanInv' /\ elsewhere' \in 0..MaxElsewhere
      BY <3>1 DEF PagesInv, KnownInv, ScanInv, CountInv
    <3> QED
      BY <3>1, <3>2, AsideKeeps
  <2> QED
    BY <2>1, <2>2, <2>3, <2>4, <2>5, <2>6, <2>7, <2>8, <2>9, <2>10, <2>11, <2>12, <2>13, <2>14 DEF Next
<1> QED
  BY <1>1, <1>2, PTL DEF Spec

(* What every handler and page holds is of its type, and no two networks   *)
(* have one name (server.go, client.go).                                   *)
THEOREM TypeCorrect == Spec => []TypeOK
<1>1. PagesInv => TypeOK
  <2> SUFFICES ASSUME PagesInv
               PROVE  TypeOK
    OBVIOUS
  <2>1. /\ nets \in [Ids -> Network \cup {NoNet}] /\ live \subseteq spent /\ spent \subseteq Ids
        /\ \A i \in live : Free(nets[i].name, i)
    BY DEF PagesInv, KnownInv, SojuInv
  <2>2. tab \in [Tabs -> Tab] /\ LockInv /\ ScanInv /\ CountInv
    BY DEF PagesInv, KnownInv, TabInv
  <2>3. flash \in [Sessions -> 0..MaxPosts] /\ settled \subseteq 1..posts
    <3>1. posts \in Nat /\ posts <= MaxPosts /\ flash \in [Sessions -> 0..posts] /\ settled \subseteq 1..posts
      BY <2>2, BoundsAreNat DEF PagesInv, MessageInv, CountInv
    <3>2. 0..posts \subseteq 0..MaxPosts
      BY <3>1, BoundsAreNat
    <3> QED
      BY <3>1, <3>2
  <2> QED
    BY <2>1, <2>2, <2>3 DEF TypeOK, Tab, Asked, LockInv, ScanInv, CountInv
<1> QED
  BY <1>1, Invariant, PTL

-----------------------------------------------------------------------------
(* What a step may do.                                                     *)

(* A tab goes on by an action of its own.                                  *)
LEMMA OwnStep ==
    ASSUME PagesInv, [Next]_vars, NEW t \in Tabs, tab'[t] # tab[t]
    PROVE  \/ \E i \in Ids : Load(t, i)
           \/ \E want \in Wants : Post(t, want)
           \/ LoadList(t) \/ DoLock(t) \/ List(t) \/ Command(t)
           \/ ListFails(t) \/ CommandFails(t) \/ Back(t) \/ Render(t)
<1>1. tab \in [Tabs -> Tab]
  BY DEF PagesInv, KnownInv, TabInv
<1>2. ASSUME NEW u \in Tabs,
             \/ \E i \in Ids : Load(u, i)
             \/ \E want \in Wants : Post(u, want)
             \/ LoadList(u) \/ DoLock(u) \/ List(u) \/ Command(u)
             \/ ListFails(u) \/ CommandFails(u) \/ Back(u) \/ Render(u)
      PROVE  \A v \in Tabs \ {u} : tab'[v] = tab[v]
  <2>1. CASE \E i \in Ids : Load(u, i)
    BY <1>1, <2>1 DEF Load
  <2>2. CASE \E want \in Wants : Post(u, want)
    BY <1>1, <2>2 DEF Post
  <2>3. CASE LoadList(u) \/ DoLock(u) \/ List(u)
    BY <1>1, <2>3 DEF LoadList, DoLock, List
  <2>4. CASE Command(u) \/ ListFails(u) \/ CommandFails(u)
    BY <1>1, <2>4 DEF Command, ListFails, CommandFails
  <2>5. CASE Back(u) \/ Render(u)
    BY <1>1, <2>5 DEF Back, Render
  <2> QED
    BY <1>2, <2>1, <2>2, <2>3, <2>4, <2>5
<1>3. ~(\E i \in Watched : WatchList(i)) /\ ~(\E i \in Ids : Elsewhere(i)) /\ ~WatchReconnect /\ ~UNCHANGED vars
  BY DEF WatchList, Elsewhere, WatchReconnect, vars
<1>4. PICK u \in Tabs :
         \/ \E i \in Ids : Load(u, i)
         \/ \E want \in Wants : Post(u, want)
         \/ LoadList(u) \/ DoLock(u) \/ List(u) \/ Command(u)
         \/ ListFails(u) \/ CommandFails(u) \/ Back(u) \/ Render(u)
  BY <1>3 DEF Next
<1>5. u = t
  BY <1>2, <1>4
<1> QED
  BY <1>4, <1>5

(* A deed that goes by a network's name is done to that network, unless it *)
(* has none or had lost it by then (server.go:418-584, 864-881).           *)
THEOREM DeedsReachTheirNetwork == Spec => ActsOnItsNetwork
<1> DEFINE Step(t) == LET i == tab[t].id
           IN  tab[t].at = "command" /\ tab'[t].at # "command" /\ tab[t].want.do \in ByName
                 => tab'[t].hit \in {0, i} \/ Astray(i, tab[t].listed)
<1>1. PagesInv /\ [Next]_vars => \A t \in Tabs : Step(t)
  <2> SUFFICES ASSUME PagesInv, [Next]_vars, NEW t \in Tabs,
                      tab[t].at = "command", tab'[t].at # "command", tab[t].want.do \in ByName,
                      ~Astray(tab[t].id, tab[t].listed)
               PROVE  tab'[t].hit \in {0, tab[t].id}
    OBVIOUS
  <2>1. KnownInv /\ SojuInv /\ tab \in [Tabs -> Tab]
    BY DEF PagesInv, KnownInv, TabInv
  <2>2. ASSUME NEW e \in Effects(t)
        PROVE  e.hit \in {0, tab[t].id}
    <3>1. e.hit \in Reached(Name(tab[t].listed)) \cup {0}
      BY <2>1, EffectIsProper DEF Proper
    <3> QED
      BY <2>1, <3>1, NameReachesIts DEF About
  <2>3. CASE Command(t)
    <3>1. PICK e \in Effects(t) :
             tab' = [tab EXCEPT ![t] = [Outcome(t) EXCEPT !.hit = e.hit, !.ok = e.ok]]
      BY <2>3 DEF Command, ByName
    <3>2. Outcome(t) \in Tab
      BY OutcomeIsTab
    <3>3. tab'[t] = [Outcome(t) EXCEPT !.hit = e.hit, !.ok = e.ok]
      BY <2>1, <3>1
    <3>4. tab'[t].hit = e.hit
      BY <3>2, <3>3 DEF Tab
    <3> QED
      BY <2>2, <3>4
  <2>4. CASE CommandFails(t)
    <3>1. PICK e \in Effects(t), next \in Failed(t) :
             tab' = [tab EXCEPT ![t] = [next EXCEPT !.hit = e.hit]]
      BY <2>4 DEF CommandFails
    <3>2. next \in Tab
      BY FailedIsTab
    <3>3. tab'[t].hit = e.hit
      BY <2>1, <3>1, <3>2 DEF Tab
    <3> QED
      BY <2>2, <3>3
  <2> QED
    <3>1. tab'[t] # tab[t]
      OBVIOUS
    <3>2. Command(t) \/ CommandFails(t)
      BY <3>1, OwnStep DEF Load, LoadList, Asks, Post, DoLock, List, ListFails, Back, Render
    <3> QED
      BY <2>3, <2>4, <3>2
<1>2. PagesInv /\ [Next]_vars => [\A t \in Tabs : Step(t)]_vars
  BY <1>1
<1> QED
  BY <1>2, Invariant, PTL DEF Spec, ActsOnItsNetwork

(* A command changes but what its handler was asked for, or had read.      *)
LEMMA CommandChanges ==
    ASSUME PagesInv, NEW t \in Tabs, Command(t) \/ CommandFails(t)
    PROVE  /\ tab'[t] # tab[t]
           /\ \A i \in live \cap live', f \in Fields :
                 nets'[i][f] # nets[i][f] => AsksFor(t, i, f) \/ WritesBack(t, i, f)
           /\ \A i \in live \ live' : tab[t].want.do = "delete" /\ tab[t].id = i
<1>1. KnownInv /\ tab \in [Tabs -> Tab] /\ tab[t].at = "command"
  BY DEF PagesInv, KnownInv, TabInv, Command, CommandFails
<1>2. PICK e \in Effects(t) : nets' = e.nets /\ live' = e.live
  BY DEF Command, CommandFails, CarryOut
<1>3. Proper(e, t)
  BY <1>1, EffectIsProper
<1>4. /\ \A i \in live \cap live', f \in Fields :
            nets'[i][f] # nets[i][f] => AsksFor(t, i, f) \/ Due(t, i, f, nets'[i][f])
      /\ \A i \in live \ live' : tab[t].want.do = "delete" /\ tab[t].id = i
  BY <1>2, <1>3 DEF Proper
<1>5. \A i, f : Due(t, i, f, nets'[i][f]) => WritesBack(t, i, f)
  BY DEF Due, WritesBack, Readdresses
<1>6. tab'[t] # tab[t]
  <2>1. CASE Command(t)
    <3>1. PICK hit \in Ids \cup {0}, ok \in BOOLEAN :
             tab'[t] = Confirmation \/ tab'[t] = [Outcome(t) EXCEPT !.hit = hit, !.ok = ok]
      <4>1. PICK x \in Effects(t) :
               tab' = [tab EXCEPT ![t] =
                          IF x.ok /\ tab[t].want.do = "ask"
                          THEN Confirmation
                          ELSE [Outcome(t) EXCEPT !.hit = x.hit, !.ok = x.ok]]
        BY <2>1 DEF Command
      <4>2. x.hit \in Ids \cup {0} /\ x.ok \in BOOLEAN
        BY <1>1, EffectIsProper DEF Proper
      <4>3. tab'[t] = Confirmation \/ tab'[t] = [Outcome(t) EXCEPT !.hit = x.hit, !.ok = x.ok]
        BY <1>1, <4>1
      <4> QED
        BY <4>2, <4>3
    <3>2. Confirmation.at = "render"
      BY DEF Confirmation, Blank
    <3>3. Outcome(t) \in Tab /\ Outcome(t).at = "back"
      BY <1>1, OutcomeIsTab
    <3>4. [Outcome(t) EXCEPT !.hit = hit, !.ok = ok].at = "back"
      BY <3>3 DEF Tab
    <3> QED
      BY <1>1, <3>1, <3>2, <3>4
  <2>2. CASE CommandFails(t)
    <3>1. PICK x \in Effects(t), next \in Failed(t) : tab'[t] = [next EXCEPT !.hit = x.hit]
      BY <1>1, <2>2 DEF CommandFails
    <3>2. next \in Tab /\ (next.at = "back" \/ next.try # tab[t].try)
      BY <1>1, FailedIsTab
    <3>3. tab'[t].at = next.at /\ tab'[t].try = next.try
      BY <3>1, <3>2 DEF Tab
    <3> QED
      BY <1>1, <3>2, <3>3
  <2> QED
    BY <2>1, <2>2
<1> QED
  BY <1>4, <1>5, <1>6

(* A reconnect of the watcher's writes the address that its pass listed.   *)
LEMMA WatcherChanges ==
    ASSUME PagesInv, WatchReconnect
    PROVE  /\ scan' # scan /\ live' = live
           /\ \A i \in live, f \in Fields :
                 nets'[i][f] # nets[i][f] => Readdresses(i, f, scan.id, scan.listed)
<1>1. SojuInv /\ scan.id # 0 /\ scan.listed \in Network
  BY DEF PagesInv, KnownInv, ScanInv, WatchReconnect
<1>2. scan' # scan
  BY <1>1 DEF WatchReconnect, NoScan
<1>3. PICK e \in {Refusal} \cup Readdressed(scan.listed) : nets' = e.nets /\ live' = e.live
  BY DEF WatchReconnect, CarryOut
<1>4. CASE e = Refusal
  BY <1>2, <1>3, <1>4 DEF Refusal
<1>5. CASE e \in Readdressed(scan.listed)
  <2>1. PICK j \in Reached(Name(scan.listed)) :
           e = Success(j, [nets[j] EXCEPT !.host = Addr(scan.listed).host, !.tls = Addr(scan.listed).tls])
    BY <1>5 DEF Readdressed
  <2> DEFINE n == [nets[j] EXCEPT !.host = Addr(scan.listed).host, !.tls = Addr(scan.listed).tls]
  <2>2. j \in live /\ j \in Ids /\ nets[j] \in Network
    BY <1>1 DEF Reached, SojuInv
  <2>3. \A f \in Fields : n[f] # nets[j][f] => f \in {"host", "tls"} /\ n[f] = scan.listed[f]
    BY <1>1, <2>2, AddrKeeps
  <2> HIDE DEF n
  <2>4. nets' = [nets EXCEPT ![j] = n] /\ live' = live
    BY <1>3, <2>1 DEF Success, Refusal, n
  <2>5. nets'[j] = n /\ \A i \in live \ {j} : nets'[i] = nets[i]
    BY <1>1, <2>2, <2>4 DEF SojuInv
  <2>6. About(j, scan.id, scan.listed)
    BY <1>1, NameReachesIts
  <2>7. \A f \in Fields : nets'[j][f] # nets[j][f] => Readdresses(j, f, scan.id, scan.listed)
    BY <2>3, <2>5, <2>6 DEF Readdresses
  <2> QED
    BY <1>2, <2>4, <2>5, <2>7
<1> QED
  BY <1>3, <1>4, <1>5

(* Whoever changes or reconnects a network leaves alone the others, unless *)
(* the name it goes by went astray, and what nobody asked to change, but   *)
(* for the fields that are sent along (server.go:318-344, 410-446, 864-881;*)
(* watch.go:233-239, 317-332).                                             *)
THEOREM OthersEditsKept == Spec => EditsKept
<1> DEFINE Step ==
        elsewhere' = elsewhere =>
          /\ \A i \in live \cap live', f \in Fields : nets'[i][f] # nets[i][f] =>
                \/ \E t \in Tabs : tab'[t] # tab[t] /\ (AsksFor(t, i, f) \/ WritesBack(t, i, f))
                \/ scan' # scan /\ Readdresses(i, f, scan.id, scan.listed)
          /\ \A i \in live \ live' :
                \E t \in Tabs : tab'[t] # tab[t] /\ tab[t].want.do = "delete" /\ tab[t].id = i
<1>1. PagesInv /\ [Next]_vars => Step
  <2> SUFFICES ASSUME PagesInv, [Next]_vars, elsewhere' = elsewhere
               PROVE  Step
    OBVIOUS
  <2>1. ASSUME nets' = nets, live' = live
        PROVE  Step
    BY <2>1
  <2>2. ASSUME NEW t \in Tabs, Command(t) \/ CommandFails(t)
        PROVE  Step
    BY <2>2, CommandChanges
  <2>3. CASE WatchReconnect
    BY <2>3, WatcherChanges
  <2>4. ASSUME NEW i \in Ids, Elsewhere(i)
        PROVE  FALSE
    BY <2>4 DEF Elsewhere, PagesInv, KnownInv, CountInv
  <2>5. ASSUME NEW t \in Tabs,
               \/ \E i \in Ids : Load(t, i)
               \/ \E want \in Wants : Post(t, want)
               \/ LoadList(t) \/ DoLock(t) \/ List(t) \/ ListFails(t) \/ Back(t) \/ Render(t)
        PROVE  Step
    <3>1. nets' = nets /\ live' = live
      BY <2>5 DEF Load, Post, LoadList, DoLock, List, ListFails, Back, Render, soju
    <3> QED
      BY <2>1, <3>1
  <2>6. CASE UNCHANGED vars \/ \E i \in Watched : WatchList(i)
    BY <2>1, <2>6 DEF vars, WatchList, soju
  <2> HIDE DEF Step
  <2> QED
    BY <2>2, <2>3, <2>4, <2>5, <2>6 DEF Next
<1>2. PagesInv /\ [Next]_vars => [Step]_vars
  BY <1>1
<1> QED
  BY <1>2, Invariant, PTL DEF Spec, EditsKept

(* The outcome of a post is shown at most once, and has been shown, or     *)
(* another one in its place, when the tab it was made in has its page      *)
(* (session.go:29-41, server.go:172-194).                                  *)
THEOREM OutcomesAreTold == Spec => OutcomeTold
<1> DEFINE Step(t) ==
        LET s == SessionOf[t]
        IN  /\ flash'[s] \notin settled'
            /\ tab[t].at = "render" /\ tab'[t].at = "page" /\ tab[t].no # 0 => tab[t].no \in settled'
<1>1. PagesInv /\ PagesInv' /\ [Next]_vars => \A t \in Tabs : Step(t)
  <2> SUFFICES ASSUME PagesInv, PagesInv', [Next]_vars, NEW t \in Tabs
               PROVE  Step(t)
    OBVIOUS
  <2>1. SessionOf[t] \in Sessions
    BY PagesAssumption
  <2>2. flash'[SessionOf[t]] \notin settled'
    BY <2>1 DEF PagesInv, MessageInv
  <2>3. ASSUME tab[t].at = "render", tab'[t].at = "page", tab[t].no # 0
        PROVE  tab[t].no \in settled'
    <3>1. tab'[t] # tab[t]
      BY <2>3
    <3>2. Render(t)
      BY <2>3, <3>1, OwnStep
         DEF Load, LoadList, Asks, Post, DoLock, List, Command, ListFails, CommandFails, Back
    <3>3. tab[t].no \in settled \cup {0, flash[SessionOf[t]]}
      BY <2>3 DEF PagesInv, MessageInv, Numbered
    <3> QED
      BY <2>3, <3>2, <3>3 DEF Render, NoFlash
  <2> QED
    BY <2>2, <2>3
<1>2. PagesInv /\ PagesInv' /\ [Next]_vars => [\A t \in Tabs : Step(t)]_vars
  BY <1>1
<1> QED
  BY <1>2, Invariant, PTL DEF Spec, OutcomeTold
=============================================================================
