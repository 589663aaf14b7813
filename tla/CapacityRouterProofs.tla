------------------------ MODULE CapacityRouterProofs -----------------------
(***************************************************************************)
(* What a router promises of the replica it chooses, whatever topologies   *)
(* and answers come, and for any number of peers, pools and classes.       *)
(***************************************************************************)
EXTENDS CapacityRouter, FiniteSetFacts, TLAPS

Lists == Statics \cup Topologies
Urls == {e.url : e \in UNION {Range(list) : list \in Lists}}

Known == [body: Snapshots, from: Urls, asked: Int]
Entries ==
  [url: Urls, joined: Int, snapshot: Known \cup {Null}, age: Nat, old: Nat]
Probes == [id: Peer, url: Urls, joined: Int, asked: Int, waited: Nat]

RouterTypes ==
  /\ started \in BOOLEAN
  /\ revision \in -1 .. MaxTopology
  /\ member \in [DOMAIN member -> Entries]
  /\ DOMAIN member \subseteq Peer
  /\ IsFiniteSet(DOMAIN member)
  /\ probes \in SUBSET Probes

(* A snapshot is of the address its entry names, asked for since the entry *)
(* was made, and the router knows how old it is but for one probe.         *)
EntryTold(entry, latest) ==
  /\ entry.joined <= latest
  /\ entry.age <= StaleAfter + 1
  /\ entry.old <= entry.age + ProbeTimeout
  /\ entry.snapshot # Null => /\ entry.snapshot.from = entry.url
                              /\ entry.snapshot.asked >= entry.joined

(* A probe whose entry is still the peer's asks the address of the entry.  *)
ProbeTold(probe) ==
  /\ probe.joined <= probe.asked /\ probe.asked <= revision
  /\ probe.waited <= ProbeTimeout
  /\ Answered(probe) => member[probe.id].url = probe.url

PollingTold == polling <=> started /\ DOMAIN member # {}

IInv ==
  /\ RouterTypes
  /\ \A p \in DOMAIN member : EntryTold(member[p], revision)
  /\ \A probe \in probes : ProbeTold(probe)
  /\ PollingTold

---------------------------------------------------------------------------
(* The cache and the probes.                                               *)

LEMMA ListFacts ==
  ASSUME NEW list \in Lists
  PROVE  /\ Range(Ids(list)) \subseteq Peer \cup {Self}
         /\ IsFiniteSet(Range(Ids(list)))
         /\ \A p \in Range(Ids(list)) : UrlOf(list, p) \in Urls
<1>1. Ids(list) \in Seq(Peer \cup {Self})
  BY RouterAssumption DEF Lists, Ids
<1>2. /\ Ids(list) \in [1 .. Len(Ids(list)) -> Peer \cup {Self}]
      /\ Len(Ids(list)) \in Nat
      /\ DOMAIN Ids(list) = 1 .. Len(Ids(list))
  BY <1>1
<1>3. Range(Ids(list)) = {Ids(list)[i] : i \in 1 .. Len(Ids(list))}
  BY <1>2 DEF Range
<1>4. IsFiniteSet(Range(Ids(list)))
  <2>1. IsFiniteSet(1 .. Len(Ids(list)))
    BY <1>2, FS_Interval
  <2>2. Ids(list) \in Surjection(1 .. Len(Ids(list)), Range(Ids(list)))
    BY <1>2, <1>3 DEF Surjection
  <2> QED BY <2>1, <2>2, FS_Surjection
<1>5. ASSUME NEW p \in Range(Ids(list)) PROVE UrlOf(list, p) \in Urls
  <2>1. PICK i \in DOMAIN list : list[i].id = p
    BY DEF Range, Ids
  <2>2. list[i] \in Range(list)
    BY DEF Range
  <2> DEFINE e == CHOOSE e \in Range(list) : e.id = p
  <2>3. e \in Range(list)
    BY <2>1, <2>2
  <2> HIDE DEF e
  <2>4. e \in UNION {Range(l) : l \in Lists}
    BY <2>3
  <2>5. UrlOf(list, p) = e.url
    BY DEF UrlOf, e
  <2> QED BY <2>4, <2>5 DEF Urls
<1>6. Range(Ids(list)) \subseteq Peer \cup {Self}
  BY <1>2, <1>3
<1> QED BY <1>4, <1>5, <1>6

LEMMA NewEntry ==
  ASSUME NEW url \in Urls, NEW born \in Int
  PROVE  /\ Entry(url, born) \in Entries
         /\ Entry(url, born).joined = born /\ Entry(url, born).url = url
         /\ Entry(url, born).snapshot = Null /\ Entry(url, born).age = 0
         /\ Entry(url, born).old = 0
BY DEF Entry, Entries

LEMMA NoMembers ==
  ASSUME NEW S, NEW T, NEW f \in [S -> T]
  PROVE  f # <<>> <=> S # {}
<1>1. CASE S = {}
  <2>1. f = [x \in {} |-> f[x]]
    BY <1>1
  <2>2. <<>> = [x \in {} |-> f[x]]
    OBVIOUS
  <2> QED BY <1>1, <2>1, <2>2
<1>2. CASE S # {}
  <2>1. DOMAIN <<>> = {} /\ DOMAIN f = S
    OBVIOUS
  <2> QED BY <1>2, <2>1
<1> QED BY <1>1, <1>2

(* The probes of a refresh ask every entry at the address it has.          *)
LEMMA RefreshTells ==
  ASSUME RouterTypes', \A p \in DOMAIN member' : EntryTold(member'[p], revision'),
         probes \in SUBSET Probes, \A probe \in probes : ProbeTold(probe)',
         probes' \in {probes, RefreshOf(member')}
  PROVE  \A probe \in probes' : ProbeTold(probe)'
<1> SUFFICES ASSUME NEW probe \in Asked(member')
             PROVE  ProbeTold(probe)'
  BY DEF RefreshOf
<1>1. PICK p \in DOMAIN member' :
        probe = [id |-> p, url |-> member'[p].url, joined |-> member'[p].joined,
                 asked |-> revision', waited |-> 0]
  BY DEF Asked
<1>2. /\ probe.id = p /\ probe.url = member'[p].url /\ probe.joined = member'[p].joined
      /\ probe.asked = revision' /\ probe.waited = 0
  BY <1>1
<1>3. member'[p].joined <= revision' /\ revision' \in Int
  BY DEF EntryTold, RouterTypes
<1> QED BY <1>2, <1>3, RouterAssumption DEF ProbeTold, Answered

LEMMA AskedTyped ==
  ASSUME NEW entries, entries \in [DOMAIN entries -> Entries],
         DOMAIN entries \subseteq Peer,
         revision' \in Int
  PROVE  Asked(entries) \subseteq Probes
<1> SUFFICES ASSUME NEW p \in DOMAIN entries
             PROVE  [id |-> p, url |-> entries[p].url, joined |-> entries[p].joined,
                     asked |-> revision', waited |-> 0] \in Probes
  BY DEF Asked
<1>1. entries[p].url \in Urls /\ entries[p].joined \in Int
  BY DEF Entries
<1> QED BY <1>1 DEF Probes

(* Start, and every change of the members, keeps the interval in step.     *)
LEMMA SyncKeeps ==
  ASSUME probes \in SUBSET Probes, \A probe \in probes : ProbeTold(probe)',
         started' \in BOOLEAN, revision' \in -1 .. MaxTopology,
         member' \in [DOMAIN member' -> Entries], DOMAIN member' \subseteq Peer,
         IsFiniteSet(DOMAIN member'),
         \A p \in DOMAIN member' : EntryTold(member'[p], revision'),
         SyncPolling(started', member')
  PROVE  IInv'
<1>1. revision' \in Int
  BY RouterAssumption
<1>2. Asked(member') \subseteq Probes
  BY <1>1, AskedTyped
<1>3. probes' \in {probes, RefreshOf(member')}
  BY DEF SyncPolling
<1>4. probes' \in SUBSET Probes
  BY <1>2, <1>3 DEF RefreshOf
<1>5. RouterTypes'
  BY <1>4 DEF RouterTypes
<1>6. \A probe \in probes' : ProbeTold(probe)'
  BY <1>3, <1>5, RefreshTells
<1>7. member' # <<>> <=> DOMAIN member' # {}
  BY NoMembers
<1>8. PollingTold'
  BY <1>7 DEF SyncPolling, PollingTold
<1> QED BY <1>5, <1>6, <1>8 DEF IInv

LEMMA InitIInv == Init => IInv
<1> SUFFICES ASSUME Init PROVE IInv
  OBVIOUS
<1>1. PICK list \in Statics :
        /\ Self \notin Range(Ids(list))
        /\ member = [p \in Range(Ids(list)) |-> Entry(UrlOf(list, p), -1)]
  BY DEF Init
<1>2. /\ DOMAIN member = Range(Ids(list)) /\ DOMAIN member \subseteq Peer
      /\ IsFiniteSet(DOMAIN member)
      /\ \A p \in DOMAIN member : UrlOf(list, p) \in Urls
  BY <1>1, ListFacts DEF Lists
<1>3. /\ started = FALSE /\ polling = FALSE /\ revision = -1 /\ probes = {}
  BY DEF Init
<1>4. ASSUME NEW p \in DOMAIN member
      PROVE  member[p] \in Entries /\ EntryTold(member[p], revision)
  <2>1. member[p] = Entry(UrlOf(list, p), -1) /\ UrlOf(list, p) \in Urls
    BY <1>1, <1>2
  <2> QED BY <1>3, <2>1, NewEntry, RouterAssumption DEF EntryTold
<1>5. member \in [DOMAIN member -> Entries]
  BY <1>1, <1>4
<1>6. RouterTypes
  <2>1. \A n \in Nat : -1 \in -1 .. n
    OBVIOUS
  <2>2. revision \in -1 .. MaxTopology
    BY <1>3, <2>1, RouterAssumption
  <2> QED BY <1>2, <1>3, <1>5, <2>2 DEF RouterTypes
<1> QED BY <1>3, <1>4, <1>6 DEF IInv, PollingTold

LEMMA StartKeeps == IInv /\ Start => IInv'
<1> SUFFICES ASSUME IInv, Start PROVE IInv'
  OBVIOUS
<1>1. started' = TRUE /\ UNCHANGED <<revision, member>> /\ SyncPolling(started', member')
  BY DEF Start
<1>2. \A probe \in probes : ProbeTold(probe)'
  BY <1>1 DEF IInv, ProbeTold, Answered
<1>3. \A p \in DOMAIN member' : EntryTold(member'[p], revision')
  BY <1>1 DEF IInv, EntryTold
<1> QED BY <1>1, <1>2, <1>3, SyncKeeps DEF IInv, RouterTypes

LEMMA StopKeeps == IInv /\ Stop => IInv'
BY DEF IInv, Stop, RouterTypes, EntryTold, ProbeTold, Answered, PollingTold

(* A peer that moved or is new gets an entry no probe was started for.     *)
LEMMA ApplyTopologyKeeps ==
  ASSUME NEW list \in Topologies, NEW r \in 0 .. MaxTopology,
         IInv, ApplyTopology(list, r)
  PROVE  IInv'
<1> DEFINE ids == Range(Ids(list)) \ {Self}
           stays(p) == p \in DOMAIN member /\ member[p].url = UrlOf(list, p)
<1>1. /\ r > revision /\ revision' = r /\ started' = started
      /\ member' = [p \in ids |-> IF stays(p) THEN member[p] ELSE Entry(UrlOf(list, p), r)]
      /\ SyncPolling(started', member')
  BY DEF ApplyTopology
<1>2. ids \subseteq Peer /\ IsFiniteSet(ids) /\ \A p \in ids : UrlOf(list, p) \in Urls
  BY ListFacts, FS_Subset DEF Lists
<1>3. revision \in Int /\ r \in Int
  BY RouterAssumption DEF IInv, RouterTypes
<1>4. /\ \A p \in DOMAIN member : member[p] \in Entries /\ EntryTold(member[p], revision)
      /\ probes \in SUBSET Probes /\ \A probe \in probes : ProbeTold(probe)
  BY DEF IInv, RouterTypes
<1> HIDE DEF ids
<1>5. ASSUME NEW p \in ids
      PROVE  member'[p] \in Entries /\ EntryTold(member'[p], revision')
  <2>1. CASE stays(p)
    <3>1. member'[p] = member[p]
      BY <1>1, <2>1
    <3>2. member[p] \in Entries /\ EntryTold(member[p], revision)
      BY <1>4, <2>1
    <3>3. member[p].joined \in Int
      BY <3>2 DEF Entries
    <3> QED BY <1>1, <1>3, <3>1, <3>2, <3>3 DEF EntryTold
  <2>2. CASE ~ stays(p)
    <3>1. member'[p] = Entry(UrlOf(list, p), r)
      BY <1>1, <2>2
    <3> QED BY <1>1, <1>2, <1>3, <3>1, NewEntry, RouterAssumption DEF EntryTold
  <2> QED BY <2>1, <2>2
<1>6. DOMAIN member' = ids
  BY <1>1
<1>7. ASSUME NEW probe \in probes PROVE ProbeTold(probe)'
  <2>1. /\ probe.joined \in Int /\ probe.asked \in Int /\ ProbeTold(probe)
    BY <1>4 DEF Probes
  <2>2. probe.joined < r /\ probe.asked <= revision'
    BY <1>1, <1>3, <2>1 DEF ProbeTold
  <2>3. ASSUME Answered(probe)' PROVE member'[probe.id].url = probe.url
    <3>1. probe.id \in ids /\ member'[probe.id].joined = probe.joined
      BY <1>6, <2>3 DEF Answered
    <3>2. stays(probe.id)
      <4>1. SUFFICES ASSUME ~ stays(probe.id) PROVE FALSE
        OBVIOUS
      <4>2. member'[probe.id] = Entry(UrlOf(list, probe.id), r)
        BY <1>1, <3>1, <4>1
      <4>3. member'[probe.id].joined = r
        BY <1>2, <1>3, <3>1, <4>2, NewEntry
      <4> QED BY <1>3, <2>1, <2>2, <3>1, <4>3
    <3>3. member'[probe.id] = member[probe.id]
      BY <1>1, <3>1, <3>2
    <3> QED BY <2>1, <3>1, <3>2, <3>3 DEF ProbeTold, Answered
  <2> QED BY <2>1, <2>2, <2>3 DEF ProbeTold
<1>8. member' \in [DOMAIN member' -> Entries]
  BY <1>1, <1>5, <1>6
<1>9. started' \in BOOLEAN /\ revision' \in -1 .. MaxTopology
  BY <1>1, RouterAssumption DEF IInv, RouterTypes
<1> QED BY <1>1, <1>2, <1>4, <1>5, <1>6, <1>7, <1>8, <1>9, SyncKeeps

LEMMA PollKeeps == IInv /\ Poll => IInv'
<1> SUFFICES ASSUME IInv, Poll PROVE IInv'
  OBVIOUS
<1>1. UNCHANGED <<started, polling, revision, member>> /\ probes' = RefreshOf(member')
  BY DEF Poll
<1>2. \A probe \in probes : ProbeTold(probe)'
  BY <1>1 DEF IInv, ProbeTold, Answered
<1>3. \A p \in DOMAIN member' : EntryTold(member'[p], revision')
  BY <1>1 DEF IInv, EntryTold
<1>4. member' \in [DOMAIN member' -> Entries] /\ DOMAIN member' \subseteq Peer
      /\ revision' \in Int /\ probes \in SUBSET Probes
  BY <1>1, RouterAssumption DEF IInv, RouterTypes
<1>5. probes' \in SUBSET Probes
  BY <1>1, <1>4, AskedTyped DEF RefreshOf
<1>6. RouterTypes'
  BY <1>1, <1>5 DEF IInv, RouterTypes
<1>7. \A probe \in probes' : ProbeTold(probe)'
  BY <1>1, <1>2, <1>3, <1>4, <1>6, RefreshTells
<1>8. PollingTold'
  BY <1>1 DEF IInv, PollingTold
<1> QED BY <1>3, <1>6, <1>7, <1>8 DEF IInv

LEMMA ProbeFailsKeeps ==
  ASSUME NEW probe \in probes, IInv, ProbeFails(probe)
  PROVE  IInv'
<1>1. /\ UNCHANGED <<started, polling, revision, member>>
      /\ probes' \in SUBSET probes
  BY DEF ProbeFails
<1> QED BY <1>1 DEF IInv, RouterTypes, EntryTold, ProbeTold, Answered, PollingTold

(* The answer goes into the entry of the address that was asked.           *)
LEMMA ProbeAnsweredKeeps ==
  ASSUME NEW probe \in probes, NEW body \in Snapshots,
         IInv, ProbeAnswered(probe, body)
  PROVE  IInv'
<1>1. UNCHANGED <<started, polling, revision>> /\ probes' \in SUBSET probes
  BY DEF ProbeAnswered
<1>2. CASE ~ Answered(probe)
  <2>1. UNCHANGED member
    BY <1>2 DEF ProbeAnswered
  <2> QED BY <1>1, <2>1 DEF IInv, RouterTypes, ProbeTold, Answered, PollingTold
<1>3. CASE Answered(probe)
  <2> DEFINE id == probe.id
             known == [body |-> body, from |-> probe.url, asked |-> probe.asked]
  <2>1. PICK lag \in 0 .. probe.waited :
          member' = [member EXCEPT ![id].snapshot = known, ![id].age = 0, ![id].old = lag]
    BY <1>3 DEF ProbeAnswered
  <2>2. /\ probe \in Probes /\ ProbeTold(probe) /\ id \in DOMAIN member
        /\ member \in [DOMAIN member -> Entries] /\ EntryTold(member[id], revision)
        /\ member[id].joined = probe.joined
    BY <1>3 DEF IInv, RouterTypes, Answered
  <2>3. /\ member[id] \in Entries /\ probe.url \in Urls /\ probe.asked \in Int
        /\ probe.waited \in Nat /\ known \in Known
    BY <2>2 DEF Probes, Known
  <2>4. lag \in Nat /\ lag <= ProbeTimeout
    BY <2>1, <2>2, <2>3, RouterAssumption DEF ProbeTold
  <2> DEFINE entry == [member[id] EXCEPT !.snapshot = known, !.age = 0, !.old = lag]
  <2>5. /\ member' = [member EXCEPT ![id] = entry]
    BY <2>1, <2>2, <2>3 DEF Entries
  <2>6. /\ entry \in Entries /\ entry.url = member[id].url /\ entry.joined = member[id].joined
        /\ entry.snapshot = known /\ entry.age = 0 /\ entry.old = lag
    BY <2>3, <2>4 DEF Entries
  <2> HIDE DEF entry
  <2>7. /\ DOMAIN member' = DOMAIN member
        /\ member'[id] = entry
        /\ \A p \in DOMAIN member : p # id => member'[p] = member[p]
        /\ member' \in [DOMAIN member' -> Entries]
    BY <2>2, <2>5, <2>6
  <2>8. known.from = probe.url /\ known.asked = probe.asked
    OBVIOUS
  <2> HIDE DEF known, id
  <2>9. EntryTold(entry, revision')
    <3>1. entry.joined <= revision
      BY <2>2, <2>6 DEF EntryTold
    <3>2. entry.snapshot.from = entry.url /\ entry.snapshot.asked >= entry.joined
      BY <1>3, <2>2, <2>6, <2>8 DEF ProbeTold, id
    <3> QED BY <1>1, <2>4, <2>6, <3>1, <3>2, RouterAssumption DEF EntryTold
  <2>10. \A p \in DOMAIN member' : EntryTold(member'[p], revision')
    <3> SUFFICES ASSUME NEW p \in DOMAIN member' PROVE EntryTold(member'[p], revision')
      OBVIOUS
    <3>1. CASE p = id
      BY <2>7, <2>9, <3>1 DEF EntryTold
    <3>2. CASE p # id
      BY <1>1, <2>7, <3>2 DEF IInv, EntryTold
    <3> QED BY <3>1, <3>2
  <2>11. \A p \in probes : ProbeTold(p)'
    <3> SUFFICES ASSUME NEW p \in probes PROVE ProbeTold(p)'
      OBVIOUS
    <3>1. ProbeTold(p)
      BY DEF IInv
    <3>2. \A x \in DOMAIN member : /\ member'[x].joined = member[x].joined
                                   /\ member'[x].url = member[x].url
      BY <2>6, <2>7
    <3>3. Answered(p)' => Answered(p) /\ member'[p.id].url = member[p.id].url
      BY <2>7, <3>2 DEF Answered
    <3> QED BY <1>1, <3>1, <3>3 DEF ProbeTold
  <2>12. RouterTypes'
    BY <1>1, <2>7 DEF IInv, RouterTypes
  <2>13. PollingTold'
    BY <1>1, <2>7 DEF IInv, PollingTold
  <2> QED BY <1>1, <2>10, <2>11, <2>12, <2>13 DEF IInv
<1> QED BY <1>2, <1>3

(* What is known and when it was learnt age alike, up to the limits.       *)
LEMMA TickKeeps == IInv /\ Tick => IInv'
<1> SUFFICES ASSUME IInv, Tick PROVE IInv'
  OBVIOUS
<1> DEFINE later(p) == [member[p] EXCEPT
                          !.age = Smaller(@ + 1, StaleAfter + 1),
                          !.old = Smaller(@ + 1, StaleAfter + ProbeTimeout + 1)]
<1>1. /\ UNCHANGED <<started, polling, revision>>
      /\ \A probe \in probes : probe.waited < ProbeTimeout
      /\ probes' = {[probe EXCEPT !.waited = @ + 1] : probe \in probes}
      /\ member' = [p \in DOMAIN member |->
                      IF member[p].snapshot = Null THEN member[p] ELSE later(p)]
  BY DEF Tick
<1> HIDE DEF later
<1>2. ASSUME NEW p \in DOMAIN member
      PROVE  /\ member'[p] \in Entries /\ EntryTold(member'[p], revision')
             /\ member'[p].joined = member[p].joined /\ member'[p].url = member[p].url
  <2>1. member[p] \in Entries /\ EntryTold(member[p], revision)
    BY DEF IInv, RouterTypes
  <2>2. CASE member[p].snapshot = Null
    <3>1. member'[p] = member[p]
      BY <1>1, <2>2
    <3> QED BY <1>1, <2>1, <3>1 DEF EntryTold
  <2>3. CASE member[p].snapshot # Null
    <3>1. member'[p] = later(p)
      BY <1>1, <2>3
    <3>2. /\ later(p) \in Entries
          /\ later(p).joined = member[p].joined /\ later(p).url = member[p].url
          /\ later(p).snapshot = member[p].snapshot
          /\ later(p).age = Smaller(member[p].age + 1, StaleAfter + 1)
          /\ later(p).old = Smaller(member[p].old + 1, StaleAfter + ProbeTimeout + 1)
      <4> DEFINE next == Smaller(member[p].age + 1, StaleAfter + 1)
                 last == Smaller(member[p].old + 1, StaleAfter + ProbeTimeout + 1)
      <4>1. next \in Nat /\ last \in Nat
        BY <2>1, RouterAssumption DEF Entries, Smaller
      <4>2. later(p) = [member[p] EXCEPT !.age = next, !.old = last]
        BY DEF later
      <4> HIDE DEF next, last
      <4>3. /\ later(p) \in Entries
            /\ later(p).joined = member[p].joined /\ later(p).url = member[p].url
            /\ later(p).snapshot = member[p].snapshot
            /\ later(p).age = next /\ later(p).old = last
        BY <2>1, <4>1, <4>2 DEF Entries
      <4> QED BY <4>3 DEF next, last
    <3>3. member[p].age \in Nat /\ member[p].old \in Nat
      BY <2>1 DEF Entries
    <3>4. EntryTold(later(p), revision')
      <4>1. /\ later(p).age <= StaleAfter + 1
            /\ later(p).old <= later(p).age + ProbeTimeout
        BY <2>1, <3>2, <3>3, RouterAssumption DEF EntryTold, Smaller
      <4> QED BY <1>1, <2>1, <3>2, <4>1 DEF EntryTold
    <3> QED BY <3>1, <3>2, <3>4 DEF EntryTold
  <2> QED BY <2>2, <2>3
<1>3. DOMAIN member' = DOMAIN member
  BY <1>1
<1>4. member' \in [DOMAIN member' -> Entries]
  BY <1>1, <1>2, <1>3
<1>5. ASSUME NEW next \in probes' PROVE next \in Probes /\ ProbeTold(next)'
  <2>1. PICK probe \in probes : next = [probe EXCEPT !.waited = @ + 1]
    BY <1>1
  <2>2. probe \in Probes /\ ProbeTold(probe) /\ probe.waited < ProbeTimeout
    BY <1>1 DEF IInv, RouterTypes
  <2>3. /\ next \in Probes /\ next.waited = probe.waited + 1 /\ probe.waited \in Nat
        /\ next.id = probe.id /\ next.url = probe.url
        /\ next.joined = probe.joined /\ next.asked = probe.asked
    BY <2>1, <2>2 DEF Probes
  <2>4. Answered(next)' => Answered(probe) /\ member'[next.id].url = member[probe.id].url
    BY <1>2, <1>3, <2>3 DEF Answered
  <2> QED BY <1>1, <2>2, <2>3, <2>4, RouterAssumption DEF ProbeTold
<1>6. RouterTypes'
  BY <1>1, <1>3, <1>4, <1>5 DEF IInv, RouterTypes
<1> QED BY <1>1, <1>2, <1>3, <1>5, <1>6 DEF IInv, PollingTold

LEMMA NextIInv == IInv /\ [Next]_vars => IInv'
<1> SUFFICES ASSUME IInv, [Next]_vars PROVE IInv'
  OBVIOUS
<1>1. CASE Start
  BY <1>1, StartKeeps
<1>2. CASE Stop
  BY <1>2, StopKeeps
<1>3. ASSUME NEW list \in Topologies, NEW r \in 0 .. MaxTopology, ApplyTopology(list, r)
      PROVE  IInv'
  BY <1>3, ApplyTopologyKeeps
<1>4. CASE Poll
  BY <1>4, PollKeeps
<1>5. ASSUME NEW probe \in probes, NEW body \in Snapshots, ProbeAnswered(probe, body)
      PROVE  IInv'
  BY <1>5, ProbeAnsweredKeeps
<1>6. ASSUME NEW probe \in probes, ProbeFails(probe) PROVE IInv'
  BY <1>6, ProbeFailsKeeps
<1>7. CASE Tick
  BY <1>7, TickKeeps
<1>8. CASE UNCHANGED vars
  BY <1>8 DEF vars, IInv, RouterTypes, EntryTold, ProbeTold, Answered, PollingTold
<1> QED BY <1>1, <1>2, <1>3, <1>4, <1>5, <1>6, <1>7, <1>8 DEF Next

(* The cache of the router has the shape its other operations rely on.     *)
THEOREM TypeCorrectness == Spec => []TypeOK
<1>1. IInv => TypeOK
  <2> SUFFICES ASSUME IInv PROVE TypeOK
    OBVIOUS
  <2>1. /\ started \in BOOLEAN /\ revision \in -1 .. MaxTopology
        /\ polling <=> started /\ DOMAIN member # {}
        /\ DOMAIN member \subseteq Peer
    BY DEF IInv, RouterTypes, PollingTold
  <2>2. \A p \in DOMAIN member :
          member[p].joined <= revision /\ member[p].age \in 0 .. StaleAfter + 1
    BY RouterAssumption DEF IInv, RouterTypes, Entries, EntryTold
  <2>3. \A probe \in probes :
          /\ probe.id \in Peer
          /\ probe.joined <= probe.asked /\ probe.asked <= revision
          /\ probe.waited \in 0 .. ProbeTimeout
    BY RouterAssumption DEF IInv, RouterTypes, Probes, ProbeTold
  <2> QED BY <2>1, <2>2, <2>3 DEF TypeOK
<1> QED BY InitIInv, NextIInv, <1>1, PTL DEF Spec

---------------------------------------------------------------------------
(* compareCandidates orders the candidates: scores are compared as         *)
(* fractions, then headrooms one by one, where none limits above all.      *)

Ratios == Int \X (Nat \ {0})

LEMMA TimesBelow ==
  ASSUME NEW m \in Int, NEW n \in Int, NEW k \in Nat \ {0}
  PROVE  m <= n <=> m * k <= n * k
OBVIOUS

LEMMA TimesRearranged ==
  ASSUME NEW m \in Int, NEW k \in Int, NEW l \in Int
  PROVE  m * k \in Int /\ (m * k) * l = (m * l) * k
OBVIOUS

LEMMA FractionsOrdered ==
  ASSUME NEW a \in Int, NEW c \in Int, NEW e \in Int,
         NEW b \in Nat \ {0}, NEW d \in Nat \ {0}, NEW f \in Nat \ {0},
         c * b <= a * d, e * d <= c * f
  PROVE  /\ e * b <= a * f
         /\ c * b < a * d \/ e * d < c * f => e * b < a * f
<1>1. /\ c * b \in Int /\ a * d \in Int /\ e * d \in Int /\ c * f \in Int
      /\ e * b \in Int /\ a * f \in Int
  BY TimesRearranged
<1>2. /\ (c * b) * f = (c * f) * b /\ (a * d) * f = (a * f) * d
      /\ (e * d) * b = (e * b) * d
  BY TimesRearranged
<1>3. /\ (c * b) * f <= (a * d) * f /\ (e * d) * b <= (c * f) * b
  BY <1>1, TimesBelow
<1>4. /\ (c * b) * f \in Int /\ (a * d) * f \in Int /\ (e * d) * b \in Int
  BY <1>1, TimesRearranged
<1>5. (e * b) * d <= (a * f) * d
  BY <1>2, <1>3, <1>4
<1>6. e * b <= a * f
  BY <1>1, <1>5, TimesBelow
<1>7. ASSUME c * b < a * d PROVE e * b < a * f
  <2>1. ~ ((a * d) * f <= (c * b) * f)
    BY <1>1, <1>7, TimesBelow
  <2>2. ~ ((a * f) * d <= (e * b) * d)
    BY <1>2, <1>3, <1>4, <2>1
  <2> QED BY <1>1, <2>2, TimesBelow
<1>8. ASSUME e * d < c * f PROVE e * b < a * f
  <2>1. ~ ((c * f) * b <= (e * d) * b)
    BY <1>1, <1>8, TimesBelow
  <2>2. ~ ((a * f) * d <= (e * b) * d)
    BY <1>2, <1>3, <1>4, <2>1
  <2> QED BY <1>1, <2>2, TimesBelow
<1> QED BY <1>6, <1>7, <1>8

LEMMA RatiosOrdered ==
  ASSUME NEW x \in Ratios, NEW y \in Ratios, NEW z \in Ratios
  PROVE  /\ ~ (RatioBelow(x, y) /\ RatioBelow(y, x))
         /\ ~ RatioBelow(x, y) /\ ~ RatioBelow(y, z) => ~ RatioBelow(x, z)
         /\ RatioBelow(y, x) /\ ~ RatioBelow(y, z) => RatioBelow(z, x)
         /\ ~ RatioBelow(x, y) /\ RatioBelow(z, y) => RatioBelow(z, x)
<1>1. /\ x[1] \in Int /\ y[1] \in Int /\ z[1] \in Int
      /\ x[2] \in Nat \ {0} /\ y[2] \in Nat \ {0} /\ z[2] \in Nat \ {0}
  BY DEF Ratios
<1> DEFINE xy == x[1] * y[2]
           yx == y[1] * x[2]
           yz == y[1] * z[2]
           zy == z[1] * y[2]
           xz == x[1] * z[2]
           zx == z[1] * x[2]
<1>2. /\ xy \in Int /\ yx \in Int /\ yz \in Int /\ zy \in Int /\ xz \in Int /\ zx \in Int
  BY <1>1, TimesRearranged
<1>3. yx <= xy /\ zy <= yz => /\ zx <= xz
                              /\ yx < xy \/ zy < yz => zx < xz
  <2> DEFINE a == x[1]  b == x[2]  c == y[1]  d == y[2]  e == z[1]  f == z[2]
  <2> HIDE DEF a, b, c, d, e, f
  <2>1. /\ a \in Int /\ c \in Int /\ e \in Int
        /\ b \in Nat \ {0} /\ d \in Nat \ {0} /\ f \in Nat \ {0}
    BY <1>1 DEF a, b, c, d, e, f
  <2>2. ASSUME c * b <= a * d, e * d <= c * f
        PROVE  e * b <= a * f /\ (c * b < a * d \/ e * d < c * f => e * b < a * f)
    BY <2>1, <2>2, FractionsOrdered
  <2> QED BY <2>2 DEF a, b, c, d, e, f
<1>4. /\ RatioBelow(x, y) <=> xy < yx
      /\ RatioBelow(y, x) <=> yx < xy
      /\ RatioBelow(y, z) <=> yz < zy
      /\ RatioBelow(z, y) <=> zy < yz
      /\ RatioBelow(x, z) <=> xz < zx
      /\ RatioBelow(z, x) <=> zx < xz
  BY DEF RatioBelow
<1> HIDE DEF xy, yx, yz, zy, xz, zx
<1> QED BY <1>2, <1>3, <1>4

Limited == Int \cup {Null}
Ranks == Limited \X Limited \X Limited \X Limited \X Limited \X Limited

LEMMA AboveOrders ==
  ASSUME NEW l \in Limited, NEW m \in Limited, NEW n \in Limited
  PROVE  /\ ~ (Above(l, m) /\ Above(m, l))
         /\ Above(l, m) /\ Above(m, n) => Above(l, n)
         /\ l # m => Above(l, m) \/ Above(m, l)
         /\ ~ Above(l, l)
BY NullAssumption DEF Limited, Above

LEMMA RankFields ==
  ASSUME NEW r \in Ranks
  PROVE  DOMAIN r = 1 .. 6 /\ \A i \in 1 .. 6 : r[i] \in Limited
BY DEF Ranks

LEMMA RanksOrdered ==
  ASSUME NEW r \in Ranks, NEW s \in Ranks, NEW t \in Ranks
  PROVE  /\ ~ (RankAbove(r, s) /\ RankAbove(s, r))
         /\ RankAbove(r, s) /\ RankAbove(s, t) => RankAbove(r, t)
         /\ r # s => RankAbove(r, s) \/ RankAbove(s, r)
<1>1. /\ \A i \in 1 .. 6 : r[i] \in Limited /\ s[i] \in Limited /\ t[i] \in Limited
      /\ DOMAIN r = 1 .. 6 /\ DOMAIN s = 1 .. 6
  BY RankFields
<1>2. ASSUME RankAbove(r, s), RankAbove(s, r) PROVE FALSE
  <2>1. PICK i \in 1 .. 6 : Above(r[i], s[i]) /\ \A h \in 1 .. 6 : h < i => r[h] = s[h]
    BY <1>1, <1>2 DEF RankAbove
  <2>2. PICK j \in 1 .. 6 : Above(s[j], r[j]) /\ \A h \in 1 .. 6 : h < j => s[h] = r[h]
    BY <1>1, <1>2 DEF RankAbove
  <2>3. i < j \/ i = j \/ j < i
    OBVIOUS
  <2> QED BY <1>1, <2>1, <2>2, <2>3, AboveOrders
<1>3. ASSUME RankAbove(r, s), RankAbove(s, t) PROVE RankAbove(r, t)
  <2>1. PICK i \in 1 .. 6 : Above(r[i], s[i]) /\ \A h \in 1 .. 6 : h < i => r[h] = s[h]
    BY <1>1, <1>3 DEF RankAbove
  <2>2. PICK j \in 1 .. 6 : Above(s[j], t[j]) /\ \A h \in 1 .. 6 : h < j => s[h] = t[h]
    BY <1>1, <1>3 DEF RankAbove
  <2>3. CASE i <= j
    <3>1. Above(r[i], t[i])
      <4>1. CASE i < j
        BY <2>1, <2>2, <4>1
      <4>2. CASE i = j
        BY <1>1, <2>1, <2>2, <4>2, AboveOrders
      <4> QED BY <2>3, <4>1, <4>2
    <3>2. \A h \in 1 .. 6 : h < i => r[h] = t[h]
      BY <2>1, <2>2, <2>3
    <3> QED BY <1>1, <3>1, <3>2 DEF RankAbove
  <2>4. CASE j < i
    <3>1. Above(r[j], t[j]) /\ \A h \in 1 .. 6 : h < j => r[h] = t[h]
      BY <2>1, <2>2, <2>4
    <3> QED BY <1>1, <3>1 DEF RankAbove
  <2> QED BY <2>3, <2>4
<1>4. ASSUME r # s PROVE RankAbove(r, s) \/ RankAbove(s, r)
  <2> DEFINE D == {i \in 1 .. 6 : r[i] # s[i]}
  <2>1. D # {}
    BY <1>4 DEF Ranks
  <2>2. D \in SUBSET Nat
    OBVIOUS
  <2>3. PICK i \in D : \A j \in D : i <= j
    BY <2>1, <2>2, NatMinimum
  <2>4. \A h \in 1 .. 6 : h < i => r[h] = s[h]
    BY <2>3
  <2>5. Above(r[i], s[i]) \/ Above(s[i], r[i])
    BY <1>1, <2>3, AboveOrders
  <2> QED BY <1>1, <2>3, <2>4, <2>5 DEF RankAbove
<1> QED BY <1>2, <1>3, <1>4

---------------------------------------------------------------------------
(* chooseCapacityCandidate: among candidates that can be told apart there  *)
(* is one that sorts before all the others, and it is chosen.              *)

Comparables == [admissible: {TRUE}, score: Ratios, rank: Ranks]
Standing(c) == [admissible |-> c.admissible, score |-> c.score, rank |-> c.rank]

Rated(c) == c.admissible => Standing(c) \in Comparables

(* Two candidates with the same score and headrooms differ in the last     *)
(* place, where the identifiers are compared.                              *)
ToldApart(S) == \A c, d \in S : c.rank = d.rank => c = d

LEMMA RatedFields ==
  ASSUME NEW c, Rated(c), c.admissible
  PROVE  c.admissible = TRUE /\ c.score \in Ratios /\ c.rank \in Ranks
<1>1. Standing(c) \in Comparables
  BY DEF Rated
<1>2. /\ Standing(c).admissible = c.admissible /\ Standing(c).score = c.score
      /\ Standing(c).rank = c.rank
  BY DEF Standing
<1> QED BY <1>1, <1>2 DEF Comparables

LEMMA BetterOrders ==
  ASSUME NEW c, NEW d, NEW e, Rated(c), Rated(d), Rated(e),
         c.admissible, d.admissible, e.admissible
  PROVE  /\ ~ (Better(c, d) /\ Better(d, c))
         /\ Better(c, d) /\ Better(d, e) => Better(c, e)
         /\ c.rank # d.rank => Better(c, d) \/ Better(d, c)
<1>1. /\ c.admissible = TRUE /\ d.admissible = TRUE /\ e.admissible = TRUE
      /\ c.score \in Ratios /\ d.score \in Ratios /\ e.score \in Ratios
      /\ c.rank \in Ranks /\ d.rank \in Ranks /\ e.rank \in Ranks
  BY RatedFields
<1> DEFINE Beats(x, y) == \/ RatioBelow(y.score, x.score)
                          \/ ~ RatioBelow(x.score, y.score) /\ RankAbove(x.rank, y.rank)
<1>2. /\ Better(c, d) <=> Beats(c, d)
      /\ Better(d, c) <=> Beats(d, c)
      /\ Better(d, e) <=> Beats(d, e)
      /\ Better(c, e) <=> Beats(c, e)
  BY <1>1 DEF Better
<1>3. ~ (Beats(c, d) /\ Beats(d, c))
  BY <1>1, RatiosOrdered, RanksOrdered
<1>4. Beats(c, d) /\ Beats(d, e) => Beats(c, e)
  <2>1. CASE RatioBelow(d.score, c.score) /\ RatioBelow(e.score, d.score)
    BY <1>1, <2>1, RatiosOrdered
  <2>2. CASE RatioBelow(d.score, c.score) /\ ~ RatioBelow(d.score, e.score)
    BY <1>1, <2>2, RatiosOrdered
  <2>3. CASE ~ RatioBelow(c.score, d.score) /\ RatioBelow(e.score, d.score)
    BY <1>1, <2>3, RatiosOrdered
  <2>4. CASE /\ ~ RatioBelow(c.score, d.score) /\ RankAbove(c.rank, d.rank)
             /\ ~ RatioBelow(d.score, e.score) /\ RankAbove(d.rank, e.rank)
    BY <1>1, <2>4, RatiosOrdered, RanksOrdered
  <2> QED BY <2>1, <2>2, <2>3, <2>4
<1>5. c.rank # d.rank => Beats(c, d) \/ Beats(d, c)
  BY <1>1, RanksOrdered
<1> HIDE DEF Beats
<1> QED BY <1>2, <1>3, <1>4, <1>5

LEMMA ChosenIsBest ==
  ASSUME NEW S, IsFiniteSet(S), ToldApart(S), \A c \in S : Rated(c),
         NEW some \in S, some.admissible
  PROVE  LET best == ChooseCandidate(S) IN
         /\ best \in S /\ best.admissible
         /\ \A d \in S \ {best} : d.admissible => Better(best, d)
<1> DEFINE A == {c \in S : c.admissible}
           W == {pair \in A \X A : pair[1] = pair[2] \/ Better(pair[1], pair[2])}
<1>1. A # {} /\ IsFiniteSet(A)
  BY FS_Subset
<1>2. \A c, d \in A : <<c, d>> \in W <=> (c = d \/ Better(c, d))
  OBVIOUS
<1>3. \A c \in A : c \in S /\ Rated(c) /\ c.admissible
  OBVIOUS
<1>4. ChooseCandidate(S) = CHOOSE c \in A : \A d \in A \ {c} : Better(c, d)
  BY <1>1 DEF ChooseCandidate
<1> HIDE DEF A, W
<1>5. \A c, d \in A : <<c, d>> \in W \/ <<d, c>> \in W
  BY <1>2, <1>3, BetterOrders DEF ToldApart
<1>6. \A c, d, e \in A : <<c, d>> \in W /\ <<d, e>> \in W => <<c, e>> \in W
  BY <1>2, <1>3, BetterOrders
<1>7. PICK best \in A : \A d \in A : <<best, d>> \in W
  BY <1>1, <1>5, <1>6, BestExists
<1>8. \A d \in A \ {best} : Better(best, d)
  BY <1>2, <1>7
<1>9. /\ ChooseCandidate(S) \in A
      /\ \A d \in A \ {ChooseCandidate(S)} : Better(ChooseCandidate(S), d)
  BY <1>4, <1>8
<1> QED BY <1>9 DEF A

---------------------------------------------------------------------------
(* scoreCapacityCandidate: what a pool publishes can be scored.            *)

ShareSound(s) ==
  /\ s.floorLeft \in Nat /\ s.ceiling \in Amounts /\ s.left \in Amounts
  /\ (s.ceiling = Null) <=> (s.left = Null)

(* Without a token budget nothing is asked of it.                          *)
PoolSound(pool, size) ==
  /\ pool.max \in Nat /\ pool.available \in Nat
  /\ pool.available > 0 => pool.max > 0
  /\ pool.budget # Null => /\ pool.budget.budget \in Nat
                           /\ pool.budget.normal \in Nat /\ pool.budget.high \in Nat
  /\ pool.budget = Null => size = 0
  /\ pool.classes # Null =>
       /\ IsFiniteSet(DOMAIN pool.classes.of)
       /\ \A k \in DOMAIN pool.classes.of :
            ShareSound(pool.classes.of[k].slots) /\ ShareSound(pool.classes.of[k].tokens)
       /\ pool.classes.shared.slots.max \in Nat
       /\ pool.classes.shared.slots.available \in Nat
       /\ pool.budget # Null => pool.classes.shared.tokens.max \in Nat

LEMMA TightestIsRatio ==
  ASSUME NEW r1 \in Ratios, NEW r2 \in Ratios, NEW r3 \in Ratios,
         NEW r4 \in Ratios, NEW r5 \in Ratios, NEW r6 \in Ratios
  PROVE  TightestRatio({r1, r2, r3, r4, r5, r6}) \in Ratios
<1> DEFINE S == {r1, r2, r3, r4, r5, r6}
           f == <<r1, r2, r3, r4, r5, r6>>
           W == {pair \in S \X S : ~ RatioBelow(pair[2], pair[1])}
<1>1. IsFiniteSet(S)
  <2>1. f \in Surjection(1 .. 6, S)
    BY DEF Surjection
  <2>2. IsFiniteSet(1 .. 6)
    <3>1. PICK n \in Int : n = 6
      OBVIOUS
    <3>2. IsFiniteSet(1 .. n)
      BY FS_Interval
    <3> QED BY <3>1, <3>2
  <2> QED BY <2>1, <2>2, FS_Surjection
<1>2. S \subseteq Ratios /\ S # {}
  OBVIOUS
<1>3. \A x, y \in S : <<x, y>> \in W <=> ~ RatioBelow(y, x)
  OBVIOUS
<1>4. TightestRatio(S) = CHOOSE r \in S : \A s \in S : ~ RatioBelow(s, r)
  BY DEF TightestRatio
<1> HIDE DEF S, W, f
<1>5. \A x, y \in S : <<x, y>> \in W \/ <<y, x>> \in W
  BY <1>2, <1>3, RatiosOrdered
<1>6. \A x, y, z \in S : <<x, y>> \in W /\ <<y, z>> \in W => <<x, z>> \in W
  BY <1>2, <1>3, RatiosOrdered
<1>7. PICK best \in S : \A x \in S : <<best, x>> \in W
  BY <1>1, <1>2, <1>5, <1>6, BestExists
<1>8. \A x \in S : ~ RatioBelow(x, best)
  BY <1>3, <1>7
<1>9. TightestRatio(S) \in S
  BY <1>4, <1>8
<1> QED BY <1>2, <1>9 DEF S

Headroom(h) ==
  /\ h.slots \in Int
  /\ h.tokens \in Limited /\ h.classSlots \in Limited /\ h.classTokens \in Limited
  /\ h.classSlotLimit \in Amounts /\ h.classTokenLimit \in Amounts
  /\ h.classSlotLimit # Null => h.classSlots \in Int
  /\ h.classTokenLimit # Null => h.classTokens \in Int

LEMMA MinusTyped ==
  ASSUME NEW have \in Amounts, NEW need \in Nat
  PROVE  /\ Minus(have, need) \in Limited
         /\ have # Null => Minus(have, need) \in Int
BY NullAssumption DEF Minus, Limited, Amounts

LEMMA HeadroomsTyped ==
  ASSUME NEW pool, NEW priority, NEW class, NEW size \in Nat, PoolSound(pool, size)
  PROVE  LET h == Headrooms(pool, priority, class, size) IN
         /\ Headroom(h)
         /\ pool.budget # Null => h.tokens \in Int
         /\ h.borrowedSlots # 0 => /\ h.sharedSlots \in Int
                                   /\ pool.classes.shared.slots.max \in Nat
         /\ h.borrowedTokens # 0 => /\ h.sharedTokens \in Int
                                    /\ pool.classes.shared.tokens.max \in Nat
<1> DEFINE h == Headrooms(pool, priority, class, size)
           available == AvailableTokens(pool, priority)
           class0 == SelectedClass(pool, class)
           known == /\ class0 # Null
                    /\ pool.classes # Null
                    /\ class0 \in DOMAIN pool.classes.of
           state == pool.classes.of[class0]
<1>1. /\ available \in Amounts
      /\ pool.budget # Null => available \in Nat /\ available # Null
      /\ pool.budget = Null => available = Null
  BY NullAssumption DEF AvailableTokens, PoolSound, Amounts
<1>2. /\ h.slots = pool.available - 1
      /\ h.tokens = Minus(available, size)
      /\ h.classSlots = IF known THEN Minus(state.slots.left, 1) ELSE Null
      /\ h.classTokens = IF known THEN Minus(state.tokens.left, size) ELSE Null
      /\ h.borrowedSlots = IF known THEN Borrowed(state.slots, 1) ELSE 0
      /\ h.borrowedTokens = IF known THEN Borrowed(state.tokens, size) ELSE 0
      /\ h.sharedSlots = IF known THEN pool.classes.shared.slots.available
                                         - Borrowed(state.slots, 1)
                         ELSE Null
      /\ h.sharedTokens = IF known /\ available # Null
                          THEN NonNegative(available - UnusedTokenFloors(pool))
                                 - Borrowed(state.tokens, size)
                          ELSE Null
      /\ h.classSlotLimit = IF known THEN state.slots.ceiling ELSE Null
      /\ h.classTokenLimit = IF known THEN state.tokens.ceiling ELSE Null
  BY DEF Headrooms
<1> HIDE DEF h, available, class0, state
<1>3. h.slots \in Int /\ h.tokens \in Limited /\ (pool.budget # Null => h.tokens \in Int)
  BY <1>1, <1>2, MinusTyped DEF PoolSound
<1>4. CASE ~ known
  <2>1. /\ h.classSlots = Null /\ h.classTokens = Null /\ h.classSlotLimit = Null
        /\ h.classTokenLimit = Null /\ h.borrowedSlots = 0 /\ h.borrowedTokens = 0
    BY <1>2, <1>4
  <2> QED BY <1>3, <2>1 DEF Headroom, Limited, Amounts, h
<1>5. CASE known
  <2>1. ShareSound(state.slots) /\ ShareSound(state.tokens)
    BY <1>5 DEF PoolSound, state
  <2>2. /\ h.classSlots = Minus(state.slots.left, 1)
        /\ h.classTokens = Minus(state.tokens.left, size)
        /\ h.classSlotLimit = state.slots.ceiling
        /\ h.classTokenLimit = state.tokens.ceiling
        /\ h.borrowedSlots = Borrowed(state.slots, 1)
        /\ h.borrowedTokens = Borrowed(state.tokens, size)
    BY <1>2, <1>5
  <2>3. /\ h.classSlots \in Limited /\ h.classTokens \in Limited
        /\ h.classSlotLimit \in Amounts /\ h.classTokenLimit \in Amounts
        /\ h.classSlotLimit # Null => h.classSlots \in Int
        /\ h.classTokenLimit # Null => h.classTokens \in Int
    BY <2>1, <2>2, MinusTyped DEF ShareSound
  <2>4. /\ Borrowed(state.slots, 1) \in Nat /\ Borrowed(state.tokens, size) \in Nat
        /\ size = 0 => Borrowed(state.tokens, size) = 0
    BY <2>1 DEF Borrowed, NonNegative, ShareSound
  <2>5. h.sharedSlots \in Int /\ pool.classes.shared.slots.max \in Nat
    BY <1>2, <1>5, <2>4 DEF PoolSound
  <2>6. h.borrowedTokens # 0 => /\ h.sharedTokens \in Int
                                /\ pool.classes.shared.tokens.max \in Nat
    <3> SUFFICES ASSUME h.borrowedTokens # 0
                 PROVE  h.sharedTokens \in Int /\ pool.classes.shared.tokens.max \in Nat
      OBVIOUS
    <3>1. pool.budget # Null
      BY <2>2, <2>4 DEF PoolSound
    <3> DEFINE left == [c \in DOMAIN pool.classes.of |-> pool.classes.of[c].tokens.floorLeft]
    <3>2. left \in [DOMAIN pool.classes.of -> Int]
      BY <1>5 DEF PoolSound, ShareSound
    <3> HIDE DEF left
    <3>3. SumFunction(left) \in Int
      BY <1>5, <3>2, SumType DEF PoolSound
    <3>4. UnusedTokenFloors(pool) \in Int
      BY <3>3 DEF UnusedTokenFloors, left
    <3>5. NonNegative(available - UnusedTokenFloors(pool)) \in Int
      BY <1>1, <3>1, <3>4 DEF NonNegative
    <3>6. h.sharedTokens \in Int
      BY <1>1, <1>2, <1>5, <2>4, <3>1, <3>5
    <3> QED BY <1>5, <3>1, <3>6 DEF PoolSound
  <2> HIDE DEF known
  <2> QED BY <1>3, <2>3, <2>5, <2>6 DEF Headroom, h
<1> HIDE DEF known
<1> QED BY <1>4, <1>5

LEMMA ScoreTyped ==
  ASSUME NEW pool, NEW h, NEW size, PoolSound(pool, size), Headroom(h),
         pool.budget # Null => h.tokens \in Int,
         h.borrowedSlots # 0 => /\ h.sharedSlots \in Int
                                /\ pool.classes.shared.slots.max \in Nat,
         h.borrowedTokens # 0 => /\ h.sharedTokens \in Int
                                 /\ pool.classes.shared.tokens.max \in Nat,
         Admissible(pool, h)
  PROVE  Score(pool, h) \in Ratios
<1> DEFINE r1 == <<h.slots, pool.max>>
           r2 == IF pool.budget = Null THEN <<1, 1>>
                 ELSE <<h.tokens, AtLeastOne(pool.budget.budget)>>
           r3 == IF h.classSlotLimit = Null THEN <<1, 1>>
                 ELSE <<h.classSlots, AtLeastOne(h.classSlotLimit)>>
           r4 == IF h.classTokenLimit = Null THEN <<1, 1>>
                 ELSE <<h.classTokens, AtLeastOne(h.classTokenLimit)>>
           r5 == IF h.borrowedSlots = 0 THEN <<1, 1>>
                 ELSE <<h.sharedSlots, AtLeastOne(pool.classes.shared.slots.max)>>
           r6 == IF h.borrowedTokens = 0 THEN <<1, 1>>
                 ELSE <<h.sharedTokens, AtLeastOne(pool.classes.shared.tokens.max)>>
<1>1. \A n \in Nat : AtLeastOne(n) \in Nat \ {0}
  BY DEF AtLeastOne
<1>2. <<1, 1>> \in Ratios
  BY DEF Ratios
<1>3. \A m \in Int, n \in Nat \ {0} : <<m, n>> \in Ratios
  BY DEF Ratios
<1>4. pool.available > 0
  BY DEF Admissible
<1>5. r1 \in Ratios
  BY <1>3, <1>4 DEF PoolSound, Headroom
<1>6. r2 \in Ratios
  BY <1>1, <1>2, <1>3 DEF PoolSound
<1>7. r3 \in Ratios
  <2>1. h.classSlotLimit # Null => h.classSlotLimit \in Nat /\ h.classSlots \in Int
    BY DEF Headroom, Amounts
  <2> QED BY <1>1, <1>2, <1>3, <2>1
<1>8. r4 \in Ratios
  <2>1. h.classTokenLimit # Null => h.classTokenLimit \in Nat /\ h.classTokens \in Int
    BY DEF Headroom, Amounts
  <2> QED BY <1>1, <1>2, <1>3, <2>1
<1>9. r5 \in Ratios
  BY <1>1, <1>2, <1>3
<1>10. r6 \in Ratios
  BY <1>1, <1>2, <1>3
<1>11. Score(pool, h) = TightestRatio({r1, r2, r3, r4, r5, r6})
  BY DEF Score
<1> HIDE DEF r1, r2, r3, r4, r5, r6
<1> QED BY <1>5, <1>6, <1>7, <1>8, <1>9, <1>10, <1>11, TightestIsRatio

(* A candidate is scored and ranked alike whoever scores it; whether it is *)
(* local only counts between equals, then its identifier.                  *)
LEMMA CandidateRated ==
  ASSUME NEW pool, NEW priority, NEW class, NEW size \in Nat, PoolSound(pool, size),
         NEW id \in Nat, NEW isLocal \in BOOLEAN
  PROVE  LET c == Candidate(id, isLocal, pool, priority, class, size) IN
         /\ Rated(c) /\ c.rank \in Ranks
         /\ c.id = id /\ c.rank[5] = LocalFirst(isLocal) /\ c.rank[6] = 0 - id
<1> DEFINE h == Headrooms(pool, priority, class, size)
           c == Candidate(id, isLocal, pool, priority, class, size)
<1>1. /\ Headroom(h)
      /\ pool.budget # Null => h.tokens \in Int
      /\ h.borrowedSlots # 0 => /\ h.sharedSlots \in Int
                                /\ pool.classes.shared.slots.max \in Nat
      /\ h.borrowedTokens # 0 => /\ h.sharedTokens \in Int
                                 /\ pool.classes.shared.tokens.max \in Nat
  BY HeadroomsTyped
<1> HIDE DEF h
<1>2. c = [id |-> id, local |-> isLocal, admissible |-> Admissible(pool, h),
           score |-> Score(pool, h),
           rank |-> <<h.classTokens, h.classSlots, h.tokens, h.slots,
                      LocalFirst(isLocal), 0 - id>>]
  BY DEF Candidate, h
<1> HIDE DEF c
<1>3. /\ c.id = id /\ c.admissible = Admissible(pool, h) /\ c.score = Score(pool, h)
      /\ c.rank = <<h.classTokens, h.classSlots, h.tokens, h.slots,
                    LocalFirst(isLocal), 0 - id>>
  BY <1>2
<1>4. LocalFirst(isLocal) \in Int /\ 0 - id \in Int
  BY DEF LocalFirst
<1>5. c.rank \in Ranks
  BY <1>1, <1>3, <1>4 DEF Ranks, Limited, Headroom
<1>6. c.rank[5] = LocalFirst(isLocal) /\ c.rank[6] = 0 - id
  BY <1>3
<1>7. Rated(c)
  <2> SUFFICES ASSUME c.admissible PROVE Standing(c) \in Comparables
    BY DEF Rated
  <2>1. Admissible(pool, h)
    BY <1>3
  <2>2. c.score \in Ratios
    BY <1>1, <1>3, <2>1, ScoreTyped
  <2>3. c.admissible = TRUE
    BY <1>3, <2>1
  <2> QED BY <1>5, <2>2, <2>3 DEF Standing, Comparables
<1> QED BY <1>3, <1>5, <1>6, <1>7 DEF c

---------------------------------------------------------------------------
(* The candidates of a request.                                            *)

StatisticsShares ==
  [use: Nat, floor: Nat, floorUse: Nat, borrowed: Nat, ceiling: Amounts]
PublishedShares ==
  [use: Nat, floor: Nat, floorUse: Nat, borrowed: Nat, floorLeft: Nat,
   ceiling: Amounts, left: Amounts]

LEMMA ClassesFields ==
  ASSUME NEW classes, NEW Shares, ClassesTyped(classes, Shares), classes # Null
  PROVE  /\ IsFiniteSet(DOMAIN classes.of)
         /\ \A k \in DOMAIN classes.of :
              classes.of[k].slots \in Shares /\ classes.of[k].tokens \in Shares
         /\ classes.shared.slots.max \in Nat /\ classes.shared.slots.available \in Nat
         /\ classes.shared.tokens # Null => classes.shared.tokens.max \in Nat
<1>1. /\ classes \in [default: Class,
                      shared: [slots: SharedParts, tokens: SharedParts \cup {Null}],
                      of: [DOMAIN classes.of -> [slots: Shares, tokens: Shares]]]
      /\ DOMAIN classes.of \subseteq Class
  BY DEF ClassesTyped
<1>2. IsFiniteSet(DOMAIN classes.of)
  BY <1>1, RouterAssumption, FS_Subset
<1>3. /\ classes.shared \in [slots: SharedParts, tokens: SharedParts \cup {Null}]
      /\ classes.of \in [DOMAIN classes.of -> [slots: Shares, tokens: Shares]]
  BY <1>1
<1>4. \A k \in DOMAIN classes.of :
        classes.of[k].slots \in Shares /\ classes.of[k].tokens \in Shares
  BY <1>3
<1>5. /\ classes.shared.slots \in SharedParts
      /\ classes.shared.tokens # Null => classes.shared.tokens \in SharedParts
  BY <1>3
<1> QED BY <1>2, <1>4, <1>5 DEF SharedParts

LEMMA PublishedShareSound ==
  ASSUME NEW s \in StatisticsShares
  PROVE  ShareSound(PublishShare(s))
<1>1. /\ PublishShare(s).floorLeft = NonNegative(s.floor - s.use)
      /\ PublishShare(s).ceiling = s.ceiling
      /\ PublishShare(s).left = IF s.ceiling = Null THEN Null
                                ELSE NonNegative(s.ceiling - s.use)
  BY DEF PublishShare
<1>2. s.floor \in Nat /\ s.use \in Nat /\ s.ceiling \in Amounts
  BY DEF StatisticsShares
<1>3. NonNegative(s.floor - s.use) \in Nat
  BY <1>2 DEF NonNegative
<1>4. s.ceiling # Null => NonNegative(s.ceiling - s.use) \in Nat
  BY <1>2 DEF NonNegative, Amounts
<1> QED BY <1>1, <1>2, <1>3, <1>4, NullAssumption DEF ShareSound, Amounts

(* poolCapacity(): what this replica knows of its own pool.                *)
LEMMA LocalSound ==
  ASSUME NEW q \in Requests, q.stats # Null
  PROVE  PoolSound(PoolCapacity(q.stats), q.size)
<1> DEFINE stats == q.stats
           pool == PoolCapacity(stats)
<1>1. /\ StatisticsTyped(stats) /\ q.size \in Nat
      /\ stats.budget = Null => q.size = 0
      /\ stats.classes # Null =>
           ((stats.budget = Null) <=> (stats.classes.shared.tokens = Null))
  BY RequestsAssumption
<1>2. /\ stats.max \in Nat /\ stats.inFlight \in Nat
      /\ stats.budget # Null => /\ stats.budget.budget \in Nat /\ stats.budget.use \in Nat
                                /\ stats.budget.available \in Int
      /\ ClassesTyped(stats.classes, StatisticsShares)
  BY <1>1 DEF StatisticsTyped, StatisticsShares
<1> HIDE DEF stats
<1>3. /\ pool.max = stats.max /\ pool.available = NonNegative(stats.max - stats.inFlight)
      /\ pool.budget =
           IF stats.budget = Null THEN Null
           ELSE [budget |-> stats.budget.budget, use |-> stats.budget.use,
                 normal |-> NonNegative(stats.budget.available),
                 high |-> NonNegative(stats.budget.budget - stats.budget.use)]
      /\ pool.classes =
           IF stats.classes = Null THEN Null
           ELSE [default |-> stats.classes.default, shared |-> stats.classes.shared,
                 of |-> [c \in DOMAIN stats.classes.of |->
                           [slots |-> PublishShare(stats.classes.of[c].slots),
                            tokens |-> PublishShare(stats.classes.of[c].tokens)]]]
  BY DEF PoolCapacity
<1> HIDE DEF pool
<1>4. /\ pool.max \in Nat /\ pool.available \in Nat
      /\ pool.available > 0 => pool.max > 0
  BY <1>2, <1>3 DEF NonNegative
<1>5. ASSUME stats.budget # Null
      PROVE  /\ pool.budget # Null /\ pool.budget.budget \in Nat
             /\ pool.budget.normal \in Nat /\ pool.budget.high \in Nat
  <2> DEFINE normal == NonNegative(stats.budget.available)
             high == NonNegative(stats.budget.budget - stats.budget.use)
  <2>1. normal \in Nat /\ high \in Nat
    BY <1>2, <1>5 DEF NonNegative
  <2>2. pool.budget = [budget |-> stats.budget.budget, use |-> stats.budget.use,
                       normal |-> normal, high |-> high]
    BY <1>3, <1>5
  <2> HIDE DEF normal, high
  <2>3. pool.budget \in [budget: Nat, use: Nat, normal: Nat, high: Nat]
    BY <1>2, <1>5, <2>1, <2>2
  <2>4. pool.budget \in [budget: Int, use: Int, normal: Int, high: Int]
    BY <2>3
  <2>5. pool.budget # Null
    BY <2>4, AbsenceAssumption
  <2> QED BY <2>3, <2>5
<1>6. stats.budget = Null => pool.budget = Null
  BY <1>3
<1>7. ASSUME pool.classes # Null
      PROVE  /\ IsFiniteSet(DOMAIN pool.classes.of)
             /\ \A k \in DOMAIN pool.classes.of :
                  ShareSound(pool.classes.of[k].slots) /\ ShareSound(pool.classes.of[k].tokens)
             /\ pool.classes.shared.slots.max \in Nat
             /\ pool.classes.shared.slots.available \in Nat
             /\ pool.budget # Null => pool.classes.shared.tokens.max \in Nat
  <2>1. stats.classes # Null
    BY <1>3, <1>7
  <2>2. /\ DOMAIN pool.classes.of = DOMAIN stats.classes.of
        /\ pool.classes.shared = stats.classes.shared
        /\ \A k \in DOMAIN stats.classes.of :
             /\ pool.classes.of[k].slots = PublishShare(stats.classes.of[k].slots)
             /\ pool.classes.of[k].tokens = PublishShare(stats.classes.of[k].tokens)
    BY <1>3, <2>1
  <2> QED BY <1>1, <1>2, <1>6, <2>1, <2>2, ClassesFields, PublishedShareSound DEF stats
<1> QED BY <1>1, <1>4, <1>5, <1>6, <1>7 DEF PoolSound, pool, stats

LEMMA ReadShareSound ==
  ASSUME NEW s \in PublishedShares, NEW schema, ShareConsistent(ReadShare(s, schema))
  PROVE  ShareSound(ReadShare(s, schema))
<1> DEFINE r == ReadShare(s, schema)
<1>1. r \in PublishedShares
  BY DEF ReadShare, PublishedShares
<1>2. (r.ceiling = Null) <=> (r.left = Null)
  BY DEF ShareConsistent
<1> HIDE DEF r
<1>3. ShareSound(r)
  BY <1>1, <1>2 DEF ShareSound, PublishedShares
<1> QED BY <1>3 DEF r

(* validatePoolCapacity: a pool that is not thrown at can be scored.       *)
LEMMA PeerSound ==
  ASSUME NEW q \in Requests, NEW body \in Snapshots, Comparable(body, q.pool, q.stats)
  PROVE  PoolSound(body.pools[q.pool], q.size)
<1>1. PICK x \in Bodies : SnapshotUnderstood(x, x.id) /\ body = ReadSnapshot(x)
  BY DEF Snapshots
<1>2. x = [schema |-> x.schema, id |-> x.id, ready |-> x.ready, pools |-> x.pools]
  BY BodiesAssumption
<1>3. body.pools = [p \in DOMAIN x.pools |-> ReadPool(x.pools[p], x.schema)]
  BY <1>1, <1>2 DEF ReadSnapshot
<1> DEFINE raw == x.pools[q.pool]
           schema == x.schema
           pool == body.pools[q.pool]
           of == ReadClasses(raw, schema)
<1>4. /\ q.pool \in DOMAIN x.pools /\ pool = ReadPool(raw, schema)
      /\ (pool.budget = Null) => (q.stats = Null \/ q.stats.budget = Null)
  BY <1>3 DEF Comparable
<1>5. PoolTyped(raw) /\ PoolUnderstood(raw, schema) /\ schema \in Nat
  BY <1>1, <1>4, BodiesAssumption DEF SnapshotUnderstood
<1>6. /\ raw \in [revision: Nat, mode: {"enforce", "observe"}, closed: BOOLEAN, max: Nat,
                  inFlight: Nat, pending: Nat, maxQueue: Nat, available: Nat,
                  budget: [budget: Nat, use: Nat, normal: Nat, high: Nat] \cup {Null},
                  classes: {raw.classes}]
      /\ ClassesTyped(raw.classes, PublishedShares)
  BY <1>5 DEF PoolTyped, PublishedShares
<1>7. /\ raw.available = NonNegative(raw.max - raw.inFlight)
      /\ raw.classes # Null =>
           /\ ClassSharesConsistent(raw, of)
           /\ schema >= 3 => SharedPartsConsistent(raw, of)
  BY <1>5 DEF PoolUnderstood
<1>8. pool.budget = Null => q.size = 0
  BY <1>4, RequestsAssumption
<1> HIDE DEF raw, schema, pool
<1>9. ASSUME raw.classes # Null
      PROVE  /\ DOMAIN of = DOMAIN raw.classes.of
             /\ \A k \in DOMAIN of :
                  /\ of[k].slots = ReadShare(raw.classes.of[k].slots, schema)
                  /\ of[k].tokens = ReadShare(raw.classes.of[k].tokens, schema)
                  /\ ShareSound(of[k].slots) /\ ShareSound(of[k].tokens)
  <2>1. /\ DOMAIN of = DOMAIN raw.classes.of
        /\ \A k \in DOMAIN of :
             /\ of[k].slots = ReadShare(raw.classes.of[k].slots, schema)
             /\ of[k].tokens = ReadShare(raw.classes.of[k].tokens, schema)
    BY DEF ReadClasses
  <2>2. \A k \in DOMAIN of : ShareConsistent(of[k].slots) /\ ShareConsistent(of[k].tokens)
    BY <1>7, <1>9 DEF ClassSharesConsistent
  <2>3. \A k \in DOMAIN raw.classes.of : /\ raw.classes.of[k].slots \in PublishedShares
                                         /\ raw.classes.of[k].tokens \in PublishedShares
    BY <1>6, <1>9, ClassesFields
  <2> HIDE DEF of
  <2> QED BY <2>1, <2>2, <2>3, ReadShareSound
<1>10. CASE raw.classes = Null \/ schema >= 3
  <2>1. pool = raw
    BY <1>4, <1>10 DEF ReadPool, raw, schema
  <2>2. ASSUME raw.classes # Null
        PROVE  /\ IsFiniteSet(DOMAIN raw.classes.of)
               /\ \A k \in DOMAIN raw.classes.of :
                    /\ ShareSound(raw.classes.of[k].slots)
                    /\ ShareSound(raw.classes.of[k].tokens)
               /\ raw.classes.shared.slots.max \in Nat
               /\ raw.classes.shared.slots.available \in Nat
               /\ raw.budget # Null => raw.classes.shared.tokens.max \in Nat
    <3>1. /\ IsFiniteSet(DOMAIN raw.classes.of)
          /\ raw.classes.shared.slots.max \in Nat
          /\ raw.classes.shared.slots.available \in Nat
          /\ raw.classes.shared.tokens # Null => raw.classes.shared.tokens.max \in Nat
      BY <1>6, <2>2, ClassesFields
    <3>2. raw.budget # Null => raw.classes.shared.tokens # Null
      BY <1>7, <1>10, <2>2 DEF SharedPartsConsistent
    <3>3. \A s : ReadShare(s, schema) = s
      BY <1>10, <2>2 DEF ReadShare
    <3>4. \A k \in DOMAIN raw.classes.of : /\ ShareSound(raw.classes.of[k].slots)
                                           /\ ShareSound(raw.classes.of[k].tokens)
      <4> HIDE DEF of
      <4> QED BY <1>9, <2>2, <3>3
    <3> QED BY <3>1, <3>2, <3>4
  <2>3. /\ raw.max \in Nat /\ raw.available \in Nat /\ raw.inFlight \in Nat
        /\ raw.budget # Null => /\ raw.budget.budget \in Nat
                                /\ raw.budget.normal \in Nat /\ raw.budget.high \in Nat
    BY <1>6
  <2>4. raw.available > 0 => raw.max > 0
    BY <1>7, <2>3 DEF NonNegative
  <2>5. PoolSound(pool, q.size)
    BY <1>8, <2>1, <2>2, <2>3, <2>4 DEF PoolSound
  <2> QED BY <2>5 DEF pool
<1>11. CASE raw.classes # Null /\ ~ (schema >= 3)
  <2> DEFINE shared == [slots |-> [max |-> raw.max, use |-> raw.inFlight,
                                   available |-> raw.available],
                        tokens |-> IF raw.budget = Null THEN Null
                                   ELSE [max |-> raw.budget.budget, use |-> raw.budget.use,
                                         available |-> NonNegative(raw.budget.budget
                                                                   - raw.budget.use)]]
             classes == [raw.classes EXCEPT !.of = of, !.shared = shared]
  <2>1. raw.classes \in [default: Class,
                         shared: [slots: SharedParts, tokens: SharedParts \cup {Null}],
                         of: [DOMAIN raw.classes.of
                                -> [slots: PublishedShares, tokens: PublishedShares]]]
    BY <1>6, <1>11 DEF ClassesTyped
  <2>2. classes.of = of /\ classes.shared = shared
    BY <2>1
  <2>3. pool = [raw EXCEPT !.classes.of = of, !.classes.shared = shared]
    BY <1>4, <1>11 DEF ReadPool, raw, schema
  <2> HIDE DEF of, shared
  <2>4. pool = [raw EXCEPT !.classes = classes]
    BY <1>6, <2>3
  <2> HIDE DEF classes
  <2>5. /\ pool.max = raw.max /\ pool.available = raw.available /\ pool.budget = raw.budget
        /\ pool.classes = classes
    BY <1>6, <2>4
  <2>6. /\ raw.max \in Nat /\ raw.available \in Nat /\ raw.inFlight \in Nat
        /\ raw.budget # Null => /\ raw.budget.budget \in Nat
                                /\ raw.budget.normal \in Nat /\ raw.budget.high \in Nat
    BY <1>6
  <2>7. raw.available > 0 => raw.max > 0
    BY <1>7, <2>6 DEF NonNegative
  <2>8. /\ shared.slots.max = raw.max /\ shared.slots.available = raw.available
        /\ raw.budget # Null => shared.tokens.max = raw.budget.budget
    BY DEF shared
  <2>9. IsFiniteSet(DOMAIN of)
    BY <1>6, <1>9, <1>11, ClassesFields
  <2>10. PoolSound(pool, q.size)
    BY <1>8, <1>9, <1>11, <2>2, <2>5, <2>6, <2>7, <2>8, <2>9 DEF PoolSound
  <2> QED BY <2>10 DEF pool
<1> QED BY <1>10, <1>11

---------------------------------------------------------------------------
(* select().                                                               *)

Candidates(q) == LocalCandidates(q) \cup PeerCandidates(q)
Usable(q) == {p \in DOMAIN member : Fresh(p) /\ Comparable(member[p].snapshot.body, q.pool, q.stats)}
PeerScored(p, q) == Scored(p, FALSE, member[p].snapshot.body.pools[q.pool], q)
Mine(isLocal, q) == Scored(Self, isLocal, PoolCapacity(q.stats), q)

LEMMA PeerRated ==
  ASSUME IInv, NEW q \in Requests, NEW p \in Usable(q), NEW isLocal \in BOOLEAN
  PROVE  LET c == Scored(p, isLocal, member[p].snapshot.body.pools[q.pool], q) IN
         /\ Rated(c) /\ c.rank \in Ranks
         /\ c.id = p /\ c.rank[5] = LocalFirst(isLocal) /\ c.rank[6] = 0 - p
<1>1. /\ p \in DOMAIN member /\ member[p].snapshot # Null
      /\ Comparable(member[p].snapshot.body, q.pool, q.stats)
  BY DEF Usable, Fresh
<1>2. member[p] \in Entries /\ p \in Nat
  BY <1>1, RouterAssumption DEF IInv, RouterTypes
<1>3. member[p].snapshot.body \in Snapshots
  BY <1>1, <1>2 DEF Entries, Known
<1>4. PoolSound(member[p].snapshot.body.pools[q.pool], q.size)
  BY <1>1, <1>3, PeerSound
<1>5. q.size \in Nat
  BY RequestsAssumption
<1> QED BY <1>2, <1>4, <1>5, CandidateRated DEF Scored

LEMMA MineRated ==
  ASSUME NEW q \in Requests, q.stats # Null, NEW isLocal \in BOOLEAN
  PROVE  /\ Rated(Mine(isLocal, q)) /\ Mine(isLocal, q).rank \in Ranks
         /\ Mine(isLocal, q).id = Self
         /\ Mine(isLocal, q).rank[5] = LocalFirst(isLocal)
         /\ Mine(isLocal, q).rank[6] = 0 - Self
<1>1. PoolSound(PoolCapacity(q.stats), q.size)
  BY LocalSound
<1>2. q.size \in Nat /\ Self \in Nat
  BY RequestsAssumption, RouterAssumption
<1> QED BY <1>1, <1>2, CandidateRated DEF Mine, Scored

LEMMA CandidatesTold ==
  ASSUME IInv, NEW q \in Requests
  PROVE  /\ IsFiniteSet(Candidates(q)) /\ ToldApart(Candidates(q))
         /\ \A c \in Candidates(q) : Rated(c)
         /\ \A c \in Candidates(q) : c.id # Self => c.id \in Usable(q) /\ c = PeerScored(c.id, q)
         /\ \A c \in LocalCandidates(q) : c = Mine(TRUE, q) /\ q.stats # Null
<1>1. /\ PeerCandidates(q) = {PeerScored(p, q) : p \in Usable(q)}
      /\ LocalCandidates(q) = IF q.stats # Null /\ q.ready THEN {Mine(TRUE, q)} ELSE {}
  BY DEF PeerCandidates, LocalCandidates, Usable, PeerScored, Mine
<1>2. Usable(q) \in SUBSET DOMAIN member /\ IsFiniteSet(Usable(q)) /\ Self \notin Usable(q)
      /\ Usable(q) \subseteq Nat /\ Self \in Nat
  <2>1. Usable(q) \in SUBSET DOMAIN member
    BY DEF Usable
  <2>2. IsFiniteSet(Usable(q))
    BY <2>1, FS_Subset DEF IInv, RouterTypes
  <2> QED BY <2>1, <2>2, RouterAssumption DEF IInv, RouterTypes
<1>3. \A p \in Usable(q) : /\ Rated(PeerScored(p, q)) /\ PeerScored(p, q).id = p
                           /\ PeerScored(p, q).rank[6] = 0 - p
  BY PeerRated DEF PeerScored
<1>4. \A c \in LocalCandidates(q) :
        c = Mine(TRUE, q) /\ q.stats # Null /\ Rated(c) /\ c.id = Self /\ c.rank[6] = 0 - Self
  BY <1>1, MineRated
<1>5. \A c \in PeerCandidates(q) : c.id \in Usable(q) /\ c = PeerScored(c.id, q)
  BY <1>1, <1>3
<1>6. IsFiniteSet(PeerCandidates(q))
  <2> DEFINE f == [p \in Usable(q) |-> PeerScored(p, q)]
  <2>1. f \in Surjection(Usable(q), PeerCandidates(q))
    BY <1>1 DEF Surjection
  <2> QED BY <1>2, <2>1, FS_Surjection
<1>7. IsFiniteSet(LocalCandidates(q))
  BY <1>1, FS_EmptySet, FS_Singleton
<1>8. IsFiniteSet(Candidates(q))
  BY <1>6, <1>7, FS_Union DEF Candidates
<1>9. ToldApart(Candidates(q))
  <2> SUFFICES ASSUME NEW c \in Candidates(q), NEW d \in Candidates(q), c.rank = d.rank
               PROVE  c = d
    BY DEF ToldApart
  <2>1. /\ c.rank[6] = 0 - c.id /\ d.rank[6] = 0 - d.id
        /\ c.id \in Nat /\ d.id \in Nat
    BY <1>2, <1>3, <1>4, <1>5 DEF Candidates
  <2>2. c.id = d.id
    BY <2>1
  <2> QED BY <1>2, <1>4, <1>5, <2>2 DEF Candidates
<1>10. \A c \in Candidates(q) : Rated(c)
  BY <1>3, <1>4, <1>5 DEF Candidates
<1>11. \A c \in Candidates(q) : c.id # Self => c.id \in Usable(q) /\ c = PeerScored(c.id, q)
  BY <1>4, <1>5 DEF Candidates
<1> QED BY <1>4, <1>8, <1>9, <1>10, <1>11

(* A request is only forwarded on a usable snapshot, to the best candidate.*)
LEMMA SelectsUsable ==
  ASSUME IInv, NEW q \in Requests, Select(q) # Self
  PROVE  /\ Select(q) \in Usable(q)
         /\ PeerScored(Select(q), q).admissible
         /\ \A c \in LocalCandidates(q) :
              c.admissible => Better(PeerScored(Select(q), q), c)
<1> DEFINE best == ChooseCandidate(Candidates(q))
<1>1. best # Null /\ Select(q) = best.id
  BY DEF Select, Candidates
<1>2. PICK some \in Candidates(q) : some.admissible
  <2>1. {c \in Candidates(q) : c.admissible} # {}
    BY <1>1 DEF ChooseCandidate
  <2> QED BY <2>1
<1>3. /\ best \in Candidates(q) /\ best.admissible
      /\ \A d \in Candidates(q) \ {best} : d.admissible => Better(best, d)
  BY <1>2, CandidatesTold, ChosenIsBest
<1> HIDE DEF best
<1>4. best.id \in Usable(q) /\ best = PeerScored(best.id, q)
  BY <1>1, <1>3, CandidatesTold
<1>5. \A c \in LocalCandidates(q) : c # best
  BY <1>1, CandidatesTold, MineRated
<1>6. \A c \in LocalCandidates(q) : c.admissible => Better(best, c)
  BY <1>3, <1>5 DEF Candidates
<1> QED BY <1>1, <1>3, <1>4, <1>6

(* CapacityAwareRouter: a request is only forwarded to a peer of the       *)
(* newest topology, on what its address there answered since it joined.    *)
THEOREM RoutesAreCurrent == Spec => []RouteIsCurrent
<1>1. IInv => RouteIsCurrent
  <2> SUFFICES ASSUME IInv, NEW q \in Requests, Select(q) # Self
               PROVE  /\ Select(q) \in DOMAIN member
                      /\ member[Select(q)].snapshot.from = member[Select(q)].url
                      /\ member[Select(q)].snapshot.asked >= member[Select(q)].joined
    BY DEF RouteIsCurrent
  <2>1. Select(q) \in DOMAIN member /\ member[Select(q)].snapshot # Null
    BY SelectsUsable DEF Usable, Fresh
  <2> QED BY <2>1 DEF IInv, EntryTold
<1> QED BY InitIInv, NextIInv, <1>1, PTL DEF Spec

(* refresh() and staleAfterMs: what a request is forwarded on is never     *)
(* older than staleAfterMs and one probe, whatever probes failed since.    *)
THEOREM RoutesAreFresh == Spec => []RouteIsFresh
<1>1. IInv => RouteIsFresh
  <2> SUFFICES ASSUME IInv, NEW q \in Requests, Select(q) # Self
               PROVE  member[Select(q)].old <= StaleAfter + ProbeTimeout
    BY DEF RouteIsFresh
  <2> DEFINE to == Select(q)
  <2>1. /\ to \in DOMAIN member /\ member[to].age <= StaleAfter
    BY SelectsUsable DEF Usable, Fresh
  <2>2. member[to] \in Entries /\ member[to].old <= member[to].age + ProbeTimeout
    BY <2>1 DEF IInv, RouterTypes, EntryTold
  <2> HIDE DEF to
  <2>3. member[to].age \in Nat /\ member[to].old \in Nat
    BY <2>2 DEF Entries
  <2>4. member[to].old <= StaleAfter + ProbeTimeout
    BY <2>1, <2>2, <2>3, RouterAssumption
  <2> QED BY <2>4 DEF to
<1> QED BY InitIInv, NextIInv, <1>1, PTL DEF Spec

LEMMA ScoredAlike ==
  ASSUME NEW id, NEW pool, NEW q
  PROVE  LET c == Scored(id, TRUE, pool, q)
             d == Scored(id, FALSE, pool, q)
         IN /\ c.admissible = d.admissible /\ c.score = d.score
            /\ \A i \in 1 .. 4 : c.rank[i] = d.rank[i]
BY DEF Scored, Candidate

(* Who is local only counts between equals: a peer chosen over this        *)
(* replica is better than it from its own point of view, too.              *)
LEMMA BetterAnyway ==
  ASSUME NEW c, NEW d, NEW e, NEW f, Rated(c), Rated(d), Rated(e), Rated(f),
         c.admissible, d.admissible,
         e.admissible = c.admissible, f.admissible = d.admissible,
         e.score = c.score, f.score = d.score,
         \A i \in 1 .. 4 : e.rank[i] = c.rank[i] /\ f.rank[i] = d.rank[i],
         c.rank[5] = LocalFirst(FALSE), d.rank[5] = LocalFirst(TRUE),
         Better(c, d)
  PROVE  Better(e, f)
<1>1. /\ DOMAIN c.rank = 1 .. 6 /\ DOMAIN e.rank = 1 .. 6
      /\ c.admissible = TRUE /\ d.admissible = TRUE
  BY RatedFields, RankFields
<1>2. c.rank[5] = 0 /\ d.rank[5] = 1
  BY DEF LocalFirst
<1>3. ASSUME RankAbove(c.rank, d.rank) PROVE RankAbove(e.rank, f.rank)
  <2>1. PICK i \in 1 .. 6 : /\ Above(c.rank[i], d.rank[i])
                            /\ \A j \in 1 .. 6 : j < i => c.rank[j] = d.rank[j]
    BY <1>1, <1>3 DEF RankAbove
  <2>2. i # 5
    BY <1>2, <2>1, NullAssumption DEF Above
  <2>3. i # 6
    BY <1>2, <2>1
  <2>4. i \in 1 .. 4
    BY <2>2, <2>3
  <2>5. /\ Above(e.rank[i], f.rank[i])
        /\ \A j \in 1 .. 6 : j < i => e.rank[j] = f.rank[j]
    BY <2>1, <2>4
  <2> QED BY <1>1, <2>4, <2>5 DEF RankAbove
<1> QED BY <1>1, <1>3 DEF Better

(* select(): were a forwarded request to arrive at the chosen peer from    *)
(* outside, the peer would keep it: two replicas that see each other as    *)
(* they are never send the same request to one another.                    *)
THEOREM NobodyForwardsBack == Spec => []NoMutualForwarding
<1>1. IInv => NoMutualForwarding
  <2> SUFFICES ASSUME IInv, NEW q \in Requests, Select(q) # Self
               PROVE  LET theirs == member[Select(q)].snapshot.body.pools[q.pool] IN
                      ChooseCandidate({Scored(Select(q), TRUE, theirs, q)}
                        \cup (IF q.stats # Null /\ q.ready
                              THEN {Scored(Self, FALSE, PoolCapacity(q.stats), q)}
                              ELSE {})).id = Select(q)
    BY DEF NoMutualForwarding
  <2> DEFINE to == Select(q)
             theirs == member[to].snapshot.body.pools[q.pool]
             kept == Scored(to, TRUE, theirs, q)
             chosen == PeerScored(to, q)
             back == IF q.stats # Null /\ q.ready THEN {Mine(FALSE, q)} ELSE {}
             S == {kept} \cup back
             best == ChooseCandidate(S)
  <2>1. /\ to \in Usable(q) /\ chosen.admissible
        /\ \A c \in LocalCandidates(q) : c.admissible => Better(chosen, c)
    BY SelectsUsable
  <2>2. /\ Rated(kept) /\ kept.id = to /\ kept.rank[6] = 0 - to
        /\ Rated(chosen) /\ chosen.rank[5] = LocalFirst(FALSE)
    BY <2>1, PeerRated DEF PeerScored
  <2>3. /\ kept.admissible = chosen.admissible /\ kept.score = chosen.score
        /\ \A i \in 1 .. 4 : kept.rank[i] = chosen.rank[i]
    <3>1. kept = Scored(to, TRUE, theirs, q) /\ chosen = Scored(to, FALSE, theirs, q)
      BY DEF PeerScored
    <3> HIDE DEF kept, chosen, theirs, to
    <3> QED BY <3>1, ScoredAlike, ZenonT(30)
  <2>4. to \in Nat /\ Self \in Nat /\ to # Self
    BY <2>1, RouterAssumption DEF Usable, IInv, RouterTypes
  <2> HIDE DEF to, theirs, kept, chosen
  <2>5. \A c \in back : /\ c = Mine(FALSE, q) /\ q.stats # Null /\ q.ready
                        /\ Rated(c) /\ c.rank[6] = 0 - Self
    BY MineRated
  <2>6. IsFiniteSet(S)
    <3>1. IsFiniteSet(back) /\ IsFiniteSet({kept})
      BY FS_EmptySet, FS_Singleton
    <3> QED BY <3>1, FS_Union
  <2>7. ToldApart(S) /\ \A c \in S : Rated(c)
    <3>1. 0 - to # 0 - Self
      BY <2>4
    <3> QED BY <2>2, <2>5, <3>1 DEF ToldApart
  <2>8. kept \in S /\ kept.admissible
    BY <2>1, <2>3
  <2>9. /\ best \in S /\ best.admissible
        /\ \A d \in S \ {best} : d.admissible => Better(best, d)
    <3> HIDE DEF S
    <3> QED BY <2>6, <2>7, <2>8, ChosenIsBest
  <2>10. best = kept
    <3>1. SUFFICES ASSUME best # kept PROVE FALSE
      OBVIOUS
    <3>2. /\ best = Mine(FALSE, q) /\ q.stats # Null /\ q.ready
      BY <2>5, <2>9, <3>1
    <3> HIDE DEF S, back, best
    <3>3. Better(best, kept)
      BY <2>8, <2>9, <3>1
    <3> DEFINE mine == Mine(TRUE, q)
    <3>4. /\ Rated(mine) /\ Rated(best) /\ mine.rank[5] = LocalFirst(TRUE)
      BY <3>2, MineRated
    <3>5. /\ best.admissible = mine.admissible /\ best.score = mine.score
          /\ \A i \in 1 .. 4 : best.rank[i] = mine.rank[i]
      <4>1. /\ best = Scored(Self, FALSE, PoolCapacity(q.stats), q)
            /\ mine = Scored(Self, TRUE, PoolCapacity(q.stats), q)
        BY <3>2 DEF Mine
      <4> HIDE DEF mine
      <4> QED BY <4>1, ScoredAlike, ZenonT(30)
    <3>6. mine \in LocalCandidates(q)
      BY <3>2 DEF LocalCandidates, Mine
    <3> HIDE DEF mine
    <3>7. mine.admissible
      BY <2>9, <3>5
    <3>8. Better(chosen, mine)
      BY <2>1, <3>6, <3>7
    <3>9. Better(kept, best)
      BY <2>1, <2>2, <2>3, <3>4, <3>5, <3>7, <3>8, BetterAnyway
    <3> QED BY <2>2, <2>8, <2>9, <3>3, <3>4, <3>9, BetterOrders
  <2>11. best.id = Select(q)
    BY <2>2, <2>10 DEF to
  <2> QED BY <2>11 DEF best, S, back, kept, theirs, to, Mine
<1> QED BY InitIInv, NextIInv, <1>1, PTL DEF Spec
=============================================================================
