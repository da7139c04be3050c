---------------------------- MODULE ChecksProofs ----------------------------
(***************************************************************************)
(* Whatever is discovered, whoever is to be notified and whichever calls   *)
(* fail: each target is drained once, so that the checks that exist, that  *)
(* notify someone and that failed add up to what the launch reports.       *)
(***************************************************************************)
EXTENDS Checks, RoutingProofs, SequenceTheorems

Anything == Databases \cup Balancers
Names(S) == {t.name : t \in S}

(* Pages: the limit ends the loop, and what was received are the first     *)
(* alarms, all of them unless the loop was cut.                            *)
FetchOK ==
  /\ pc \in Places /\ cut \in BOOLEAN
  /\ page \in 0..MaxPages /\ (pc = "fetch" => page < MaxPages)
  /\ alarms \in AlarmLists /\ cwAlarms \in Seq(Range(alarms)) /\ IsPrefix(cwAlarms, alarms)
  /\ pc # "fetch" => cwAlarms = alarms \/ cut

(* The pool: what is in it has not been touched, and is in it once. *)
Taken == found \ Range(targets)
Busy == pc \in {"create", "list", "notify"}
Handled == Named(created) \cup failures \cup Reached
PoolOK ==
  /\ targets \in Seq(Anything) /\ IsInjective(targets)
  /\ Range(targets) \subseteq found /\ found \subseteq Anything /\ IsFiniteSet(found)
  /\ Handled \subseteq Names(Taken)
  /\ Busy => check.of \in Names(Taken)

(* The check at work on: nothing has been done with it before. *)
CurrentOK ==
  /\ pc = "create" => check.of \notin Handled
  /\ pc \in {"list", "notify"} => check.of \in Named(created) \ (failures \cup Reached)

ContactsOK ==
  /\ defaultNotifs \in SUBSET (Contacts \cup {"email"})
  /\ pc = "list" => defaultNotifs = {}
  /\ pc = "notify" => defaultNotifs # {}
  /\ \A p \in notified : p[2] = defaultNotifs /\ defaultNotifs # {}

(* What was created was generated from the alarms as they are now: none of *)
(* it existed before they were fetched.                                    *)
Generated == {Generate(t) : t \in Anything}
SourcesOK ==
  /\ pc = "fetch" => created = {}
  /\ created \subseteq Generated
  /\ Busy => check \in Generated

Inv == FetchOK /\ PoolOK /\ CurrentOK /\ ContactsOK /\ SourcesOK /\ ChecksAccountedFor

(***************************************************************************)
(* Fetching                                                                *)
(***************************************************************************)
LEMMA ListsOfAlarms == \A list \in AlarmLists : list \in Seq(Range(list)) /\ Range(list) \in SUBSET Alarms
BY AlarmsAssumption, SeqOfRange, RangeOfSeq

LEMMA ReceivedIsPrefix ==
  ASSUME alarms \in AlarmLists, page \in Nat
  PROVE  /\ Received \in Seq(Range(alarms)) /\ IsPrefix(Received, alarms)
         /\ ~More => Received = alarms
<1> DEFINE n == IF (page + 1) * PageSize < Len(alarms) THEN (page + 1) * PageSize ELSE Len(alarms)
<1>1. /\ alarms \in Seq(Range(alarms)) /\ Len(alarms) \in Nat
      /\ \A i \in 1..Len(alarms) : alarms[i] \in Range(alarms)
  BY ListsOfAlarms, LenProperties, ElementOfSeq
<1>2. (page + 1) * PageSize \in Nat
  <2>1. \A a, b \in Nat : a * b \in Nat
    OBVIOUS
  <2> QED
    BY <2>1, BoundsAssumption
<1>3. n \in Nat /\ n =< Len(alarms)
  BY <1>1, <1>2
<1>4. Received = SubSeq(alarms, 1, n)
  BY DEF Received
<1> HIDE DEF n
<1>5. \A i \in 1..n : alarms[i] \in Range(alarms)
  BY <1>1, <1>3
<1>6. Received \in Seq(Range(alarms)) /\ Len(Received) = n
  BY <1>1, <1>3, <1>4, <1>5, SubSeqProperties
<1>7. Received = SubSeq(Received, 1, n)
  BY <1>6, SubSeqFull
<1>8. ~More => Received = alarms
  <2>1. ~More => n = Len(alarms)
    BY <1>1, <1>3, <1>6 DEF More
  <2> QED
    BY <1>1, <1>4, <2>1, SubSeqFull
<1> QED
  BY <1>1, <1>3, <1>4, <1>6, <1>7, <1>8 DEF IsPrefix

LEMMA InitInv == Init => Inv
<1> SUFFICES ASSUME Init PROVE Inv
  OBVIOUS
<1>1. FetchOK
  <2>1. alarms \in Seq(Range(alarms)) /\ <<>> \in Seq(Range(alarms))
    BY ListsOfAlarms, EmptySeq DEF Init
  <2>2. Len(<<>>) = 0 /\ Len(alarms) \in Nat
    BY <2>1, EmptySeq, LenProperties
  <2>3. SubSeq(<<>>, 1, 0) = <<>> /\ SubSeq(alarms, 1, 0) = <<>>
    BY SubSeqEmpty
  <2>4. IsPrefix(<<>>, alarms)
    BY <2>2, <2>3 DEF IsPrefix
  <2> QED
    <3>1. page \in 0..MaxPages /\ page < MaxPages
      BY BoundsAssumption DEF Init
    <3> QED
      BY <2>1, <2>4, <3>1, Zenon DEF Init, FetchOK, Places
<1>2. PoolOK
  <2>1. <<>> \in Seq(Anything) /\ DOMAIN <<>> = {}
    BY EmptySeq
  <2>2. IsInjective(<<>>) /\ Range(<<>>) = {}
    BY <2>1 DEF IsInjective, Range
  <2>3. Handled = {}
    BY DEF Init, Handled, Named, Reached
  <2> QED
    BY <2>1, <2>2, <2>3, FS_EmptySet DEF Init, PoolOK, Busy
<1>3. CurrentOK /\ ContactsOK
  BY DEF Init, CurrentOK, ContactsOK
<1>4. ChecksAccountedFor
  <2>1. Reached = {} /\ Named(created) = {} /\ successCount = 0
    BY DEF Init, Reached, Named
  <2>2. Cardinality(Reached \ failures) = 0
    BY <2>1, FS_EmptySet
  <2> QED
    BY <2>1, <2>2 DEF ChecksAccountedFor
<1>5. SourcesOK
  BY DEF Init, SourcesOK, Busy
<1> QED
  BY <1>1, <1>2, <1>3, <1>4, <1>5 DEF Inv

LEMMA FetchStep == ASSUME FetchOK, [Next]_vars PROVE FetchOK'
<1> USE DEF Places
<1>0. page \in Nat /\ page =< MaxPages /\ MaxPages \in Nat
  BY BoundsAssumption DEF FetchOK
<1>1. CASE FetchPage
  <2>1. Received \in Seq(Range(alarms)) /\ IsPrefix(Received, alarms) /\ (~More => Received = alarms)
    BY <1>0, ReceivedIsPrefix DEF FetchOK
  <2>2. page < MaxPages /\ alarms' = alarms
    BY <1>1 DEF FetchPage, FetchOK
  <2>3. \/ Page /\ page + 1 < MaxPages /\ UNCHANGED <<pc, cut>>
        \/ Page /\ pc' = "discover" /\ (cut' = TRUE \/ (~More /\ cut' = cut))
        \/ pc' = "discover" /\ cut' = TRUE /\ UNCHANGED <<page, cwAlarms>>
    BY <1>1 DEF FetchPage
  <2> QED
    <3>1. CASE Page /\ page + 1 < MaxPages /\ UNCHANGED <<pc, cut>>
      <4>1. page' \in 0..MaxPages /\ page' < MaxPages /\ pc = "fetch"
        BY <1>0, <1>1, <3>1 DEF Page, FetchPage
      <4> QED
        BY <2>1, <2>2, <3>1, <4>1 DEF Page, FetchOK
    <3>2. CASE Page /\ pc' = "discover" /\ (cut' = TRUE \/ (~More /\ cut' = cut))
      <4>1. page' \in 0..MaxPages
        BY <1>0, <2>2, <3>2 DEF Page
      <4>2. cut' \in BOOLEAN /\ (cwAlarms' = alarms' \/ cut')
        BY <2>1, <2>2, <3>2 DEF Page, FetchOK
      <4> QED
        BY <2>1, <2>2, <3>2, <4>1, <4>2 DEF Page, FetchOK
    <3>3. CASE pc' = "discover" /\ cut' = TRUE /\ UNCHANGED <<page, cwAlarms>>
      BY <2>2, <3>3 DEF FetchOK
    <3> QED
      BY <2>3, <3>1, <3>2, <3>3
<1>2. CASE Next /\ ~FetchPage
  BY <1>2 DEF Next, Discover, DiscoveryEnds, DrainTarget, DrainEnds, Send, CreateCheck,
              ListNotificationsDefault, CreateNotifications, SendFails, fetchVars, FetchOK
<1>3. CASE UNCHANGED vars
  BY <1>3 DEF vars, fetchVars, FetchOK
<1> QED
  BY <1>1, <1>2, <1>3

(***************************************************************************)
(* The pool                                                                *)
(***************************************************************************)
(* Taking the first target leaves it in no place of the pool. *)
LEMMA HeadLeaves ==
  ASSUME PoolOK, targets # <<>>
  PROVE  /\ Head(targets) \in found \cap Anything
         /\ Tail(targets) \in Seq(Anything) /\ IsInjective(Tail(targets))
         /\ Range(Tail(targets)) \subseteq Range(targets)
         /\ Head(targets) \in Range(targets) \ Range(Tail(targets))
<1>1. /\ targets \in Seq(Anything) /\ Len(targets) \in Nat \ {0} /\ DOMAIN targets = 1..Len(targets)
  BY EmptySeq, LenProperties DEF PoolOK
<1>2. /\ Tail(targets) \in Seq(Anything) /\ Len(Tail(targets)) = Len(targets) - 1
      /\ \A i \in 1..Len(Tail(targets)) : Tail(targets)[i] = targets[i + 1]
  BY <1>1, HeadTailProperties
<1>3. DOMAIN Tail(targets) = 1..(Len(targets) - 1)
  BY <1>2, LenProperties
<1>4. Head(targets) = targets[1] /\ 1 \in DOMAIN targets
  BY <1>1
<1>5. \A i \in DOMAIN Tail(targets) : i + 1 \in DOMAIN targets /\ i + 1 # 1
                                      /\ Tail(targets)[i] = targets[i + 1]
  BY <1>1, <1>2, <1>3
<1>6. \A i, j \in DOMAIN targets : targets[i] = targets[j] => i = j
  BY DEF PoolOK, IsInjective
<1>7. IsInjective(Tail(targets))
  <2> SUFFICES ASSUME NEW i \in DOMAIN Tail(targets), NEW j \in DOMAIN Tail(targets),
                      Tail(targets)[i] = Tail(targets)[j]
               PROVE  i = j
    BY DEF IsInjective
  <2>1. i + 1 = j + 1 /\ i \in Int /\ j \in Int
    BY <1>3, <1>5, <1>6
  <2> QED
    BY <2>1
<1>8. Range(Tail(targets)) \subseteq Range(targets) /\ Head(targets) \notin Range(Tail(targets))
  BY <1>4, <1>5, <1>6 DEF Range
<1>9. Head(targets) \in Range(targets) /\ Range(targets) \subseteq found /\ found \subseteq Anything
  BY <1>4 DEF Range, PoolOK
<1> QED
  BY <1>2, <1>7, <1>8, <1>9

(* Nor is its name that of a target taken before. *)
LEMMA NamesDiffer ==
  ASSUME NEW S \in SUBSET Anything, NEW t \in Anything \ S
  PROVE  t.name \notin Names(S)
BY NamesAssumption DEF Names, Anything

LEMMA Grows ==
  ASSUME NEW t \in Anything, PoolOK, t \notin found,
         targets' = Append(targets, t), found' = found \cup {t}
  PROVE  /\ targets' \in Seq(Anything) /\ IsInjective(targets')
         /\ Range(targets') = Range(targets) \cup {t} /\ Taken' = Taken
<1>1. /\ targets \in Seq(Anything) /\ Len(targets) \in Nat /\ DOMAIN targets = 1..Len(targets)
  BY LenProperties DEF PoolOK
<1>2. /\ targets' \in Seq(Anything) /\ Len(targets') = Len(targets) + 1
      /\ \A i \in 1..Len(targets) : targets'[i] = targets[i]
      /\ targets'[Len(targets) + 1] = t
  BY <1>1, AppendProperties
<1>3. DOMAIN targets' = 1..(Len(targets) + 1)
  BY <1>2, LenProperties
<1>4. \A i \in DOMAIN targets' : \/ i \in DOMAIN targets /\ targets'[i] = targets[i]
                                 \/ i = Len(targets) + 1 /\ targets'[i] = t
  BY <1>1, <1>2, <1>3
<1>5. Range(targets') = Range(targets) \cup {t}
  <2>1. Range(targets') \subseteq Range(targets) \cup {t}
    BY <1>4 DEF Range
  <2>2. t \in Range(targets') /\ Range(targets) \subseteq Range(targets')
    BY <1>1, <1>2, <1>3 DEF Range
  <2> QED
    BY <2>1, <2>2
<1>6. t \notin Range(targets)
  BY DEF PoolOK
<1>7. IsInjective(targets')
  <2>1. \A i \in DOMAIN targets : targets[i] # t
    BY <1>6 DEF Range
  <2> QED
    BY <1>4, <2>1 DEF PoolOK, IsInjective
<1> QED
  BY <1>2, <1>5, <1>6, <1>7 DEF Taken, PoolOK

LEMMA GenerateNames == \A t : Generate(t).of = t.name
BY DEF Generate

LEMMA Additions ==
  /\ \A c : Named(created \cup {c}) = Named(created) \cup {c.of}
  /\ Notified => Reached' = Reached \cup {check.of}
<1>1. \A c : Named(created \cup {c}) = Named(created) \cup {c.of}
  BY DEF Named
<1>2. ASSUME Notified PROVE Reached' = Reached \cup {check.of}
  <2>1. <<check.of, defaultNotifs>>[1] = check.of
    OBVIOUS
  <2> QED
    BY <1>2, <2>1 DEF Notified, Reached
<1> QED
  BY <1>1, <1>2

(* Sending a check does things with that check only. *)
LEMMA SendHandles ==
  ASSUME Send
  PROVE  /\ Busy /\ UNCHANGED <<poolVars, check>>
         /\ Handled' \subseteq Handled \cup {check.of}
<1>1. Busy /\ UNCHANGED <<poolVars, check>>
  BY DEF Send, CreateCheck, ListNotificationsDefault, CreateNotifications, Busy
<1>2. CASE CreateCheck
  <2>1. Named(created') \subseteq Named(created) \cup {check.of} /\ Reached' = Reached
    BY <1>2, Additions DEF CreateCheck, Reached
  <2>2. failures' \subseteq failures \cup {check.of}
    BY <1>2 DEF CreateCheck, SendFails
  <2> QED
    BY <1>1, <2>1, <2>2 DEF Handled, Named
<1>3. CASE ListNotificationsDefault
  BY <1>1, <1>3 DEF ListNotificationsDefault, Handled, Named, Reached
<1>4. CASE CreateNotifications
  <2>1. created' = created /\ (Notified \/ notified' = notified)
    BY <1>4 DEF CreateNotifications
  <2>2. failures' \subseteq failures \cup {check.of}
    BY <1>4 DEF CreateNotifications, SendFails
  <2>3. Reached' \subseteq Reached \cup {check.of}
    BY <2>1, Additions DEF Reached
  <2> QED
    BY <1>1, <2>1, <2>2, <2>3 DEF Handled, Named
<1> QED
  BY <1>1, <1>2, <1>3, <1>4 DEF Send

LEMMA PoolStep == ASSUME PoolOK, [Next]_vars PROVE PoolOK'
<1> USE DEF poolVars, sinkVars
<1>1. CASE Discover
  <2>1. PICK t \in Anything \ found : found' = found \cup {t} /\ targets' = Append(targets, t)
    BY <1>1 DEF Discover, Anything
  <2>2. /\ targets' \in Seq(Anything) /\ IsInjective(targets')
        /\ Range(targets') = Range(targets) \cup {t} /\ Taken' = Taken
    BY <2>1, Grows
  <2>3. IsFiniteSet(found')
    BY <2>1, FS_AddElement DEF PoolOK
  <2>4. Handled' = Handled /\ pc' = pc /\ check' = check
    BY <1>1 DEF Discover, Handled, Named, Reached
  <2> QED
    BY <2>1, <2>2, <2>3, <2>4 DEF PoolOK, Busy
<1>2. CASE DrainTarget
  <2>1. targets # <<>> /\ targets' = Tail(targets) /\ found' = found
    BY <1>2 DEF DrainTarget
  <2>2. /\ Head(targets) \in found
        /\ Tail(targets) \in Seq(Anything) /\ IsInjective(Tail(targets))
        /\ Range(Tail(targets)) \subseteq Range(targets)
        /\ Head(targets) \in Range(targets) \ Range(Tail(targets))
    BY <2>1, HeadLeaves
  <2>3. Taken \subseteq Taken' /\ Head(targets) \in Taken'
    BY <2>1, <2>2 DEF Taken
  <2>4. Names(Taken) \subseteq Names(Taken') /\ Head(targets).name \in Names(Taken')
    BY <2>3 DEF Names
  <2>5. Handled' = Handled
    BY <1>2 DEF DrainTarget, Handled, Named, Reached
  <2>6. Busy' => check'.of = Head(targets).name
    BY <1>2, GenerateNames DEF DrainTarget, Busy
  <2> QED
    BY <2>1, <2>2, <2>4, <2>5, <2>6 DEF PoolOK, Names
<1>3. CASE Send
  <2>1. Busy /\ UNCHANGED <<targets, found, check>> /\ Handled' \subseteq Handled \cup {check.of}
    BY <1>3, SendHandles
  <2>2. Taken' = Taken
    BY <2>1 DEF Taken
  <2> QED
    BY <2>1, <2>2 DEF PoolOK
<1>4. CASE FetchPage \/ DiscoveryEnds \/ DrainEnds \/ UNCHANGED vars
  <2>1. UNCHANGED <<targets, found, check, created, notified, failures>> /\ (Busy' => Busy)
    BY <1>4 DEF FetchPage, DiscoveryEnds, DrainEnds, vars, Busy
  <2> QED
    BY <2>1 DEF PoolOK, Handled, Named, Reached, Taken
<1> QED
  BY <1>1, <1>2, <1>3, <1>4 DEF Next

LEMMA CurrentStep ==
  ASSUME PoolOK, CurrentOK, [Next]_vars
  PROVE  CurrentOK'
<1> USE DEF poolVars, sinkVars
<1>1. CASE DrainTarget
  <2>1. pc' \in {"create", "drain"} /\ (pc' = "create" => check'.of = Head(targets).name)
    BY <1>1, GenerateNames DEF DrainTarget
  <2>2. Head(targets) \in Anything \ Taken /\ Taken \in SUBSET Anything
    BY <1>1, HeadLeaves DEF DrainTarget, Taken, PoolOK
  <2>3. Head(targets).name \notin Handled
    BY <2>2, NamesDiffer DEF PoolOK
  <2>4. Handled' = Handled
    BY <1>1 DEF DrainTarget, Handled, Named, Reached
  <2> QED
    BY <2>1, <2>3, <2>4 DEF CurrentOK
<1>2. CASE CreateCheck
  <2>1. check' = check /\ check.of \notin Handled /\ Reached' = Reached
    BY <1>2 DEF CreateCheck, CurrentOK, Reached
  <2>2. CASE pc' = "drain"
    BY <2>2 DEF CurrentOK
  <2>3. CASE pc' # "drain"
    <3>1. created' = created \cup {check} /\ failures' = failures /\ pc' \in {"list", "notify"}
      BY <1>2, <2>3 DEF CreateCheck, SendFails
    <3>2. check.of \in Named(created)'
      BY <3>1, Additions
    <3> QED
      BY <2>1, <3>1, <3>2 DEF CurrentOK, Handled
  <2> QED
    BY <2>2, <2>3
<1>3. CASE ListNotificationsDefault
  BY <1>3 DEF ListNotificationsDefault, CurrentOK, Named, Reached
<1>4. CASE CreateNotifications
  BY <1>4 DEF CreateNotifications, SendFails, CurrentOK
<1>5. CASE FetchPage \/ Discover \/ DiscoveryEnds \/ DrainEnds
  BY <1>5 DEF FetchPage, Discover, DiscoveryEnds, DrainEnds, CurrentOK
<1>6. CASE UNCHANGED vars
  BY <1>6 DEF vars, CurrentOK, Handled, Named, Reached
<1> QED
  BY <1>1, <1>2, <1>3, <1>4, <1>5, <1>6 DEF Next, Send

(***************************************************************************)
(* Whom the checks notify                                                  *)
(***************************************************************************)
LEMMA ContactsStep == ASSUME ContactsOK, [Next]_vars PROVE ContactsOK'
<1> USE DEF sinkVars
<1>1. CASE ListNotificationsDefault
  <2>1. notified = {} /\ notified' = notified
    BY <1>1 DEF ListNotificationsDefault, ContactsOK
  <2>2. defaultNotifs' \in SUBSET (Contacts \cup {"email"}) /\ defaultNotifs' # {} /\ pc' = "notify"
    <3>1. defaultNotifs' \in ((SUBSET Contacts) \ {{}}) \cup {{"email"}} /\ pc' = "notify"
      BY <1>1 DEF ListNotificationsDefault
    <3> QED
      BY <3>1
  <2> QED
    BY <2>1, <2>2 DEF ContactsOK
<1>2. CASE CreateNotifications
  <2>1. defaultNotifs # {} /\ defaultNotifs' = defaultNotifs /\ pc' = "drain"
    BY <1>2 DEF CreateNotifications, SendFails, ContactsOK
  <2>2. notified' \subseteq notified \cup {<<check.of, defaultNotifs>>}
    BY <1>2 DEF CreateNotifications, Notified
  <2>3. <<check.of, defaultNotifs>>[2] = defaultNotifs
    OBVIOUS
  <2> QED
    BY <2>1, <2>2, <2>3 DEF ContactsOK
<1>3. CASE CreateCheck
  BY <1>3 DEF CreateCheck, SendFails, ContactsOK
<1>4. CASE FetchPage \/ Discover \/ DiscoveryEnds \/ DrainTarget \/ DrainEnds
  BY <1>4 DEF FetchPage, Discover, DiscoveryEnds, DrainTarget, DrainEnds, ContactsOK
<1>5. CASE UNCHANGED vars
  BY <1>5 DEF vars, ContactsOK
<1> QED
  BY <1>1, <1>2, <1>3, <1>4, <1>5 DEF Next, Send

(***************************************************************************)
(* The count of checks                                                     *)
(***************************************************************************)
LEMMA NamesFinite ==
  ASSUME NEW S, IsFiniteSet(S)
  PROVE  IsFiniteSet(Names(S)) /\ Cardinality(Names(S)) =< Cardinality(S)
<1> DEFINE f == [t \in S |-> t.name]
<1>1. f \in Surjection(S, Names(S))
  BY DEF Names, Surjection
<1> QED
  BY <1>1, FS_Surjection

LEMMA ReachedIsFinite == ASSUME PoolOK PROVE IsFiniteSet(Reached \ failures)
<1>1. Taken \subseteq found /\ IsFiniteSet(found)
  BY DEF PoolOK, Taken
<1>2. IsFiniteSet(Names(Taken))
  BY <1>1, FS_Subset, NamesFinite
<1>3. Reached \ failures \subseteq Names(Taken)
  BY DEF PoolOK, Handled
<1> QED
  BY <1>2, <1>3, FS_Subset

LEMMA CountStep ==
  ASSUME PoolOK, CurrentOK, ChecksAccountedFor, [Next]_vars
  PROVE  ChecksAccountedFor'
<1> USE DEF sinkVars
<1>1. CASE CreateCheck
  <2>1. pc = "create" /\ check' = check /\ check.of \notin Handled /\ successCount' = successCount
    BY <1>1 DEF CreateCheck, CurrentOK
  <2>2. Reached' = Reached
    BY <1>1 DEF CreateCheck, Reached
  <2>3. Named(created)' \subseteq Named(created) \cup {check.of} /\ Named(created) \subseteq Named(created)'
    BY <1>1, Additions DEF CreateCheck, Named
  <2>4. \/ failures' = failures /\ pc' \in {"list", "notify"}
        \/ failures' = failures \cup {check.of}
    BY <1>1 DEF CreateCheck, SendFails
  <2>5. Reached' \ failures' = Reached \ failures
    BY <2>1, <2>2, <2>4 DEF Handled
  <2>6. \A n \in Named(created)' \ Reached' :
          n \in failures' \/ (n = check'.of /\ pc' \in {"list", "notify"})
    BY <2>1, <2>2, <2>3, <2>4 DEF ChecksAccountedFor
  <2> QED
    BY <2>1, <2>2, <2>3, <2>5, <2>6 DEF ChecksAccountedFor
<1>2. CASE CreateNotifications
  <2>1. /\ pc = "notify" /\ check' = check /\ created' = created /\ pc' = "drain"
        /\ check.of \in Named(created) \ (failures \cup Reached)
    BY <1>2 DEF CreateNotifications, SendFails, CurrentOK
  <2>2. Named(created)' = Named(created)
    BY <2>1 DEF Named
  <2>3. CASE Notified /\ successCount' = successCount + 1 /\ failures' = failures
    <3>1. Reached' = Reached \cup {check.of}
      BY <2>3, Additions
    <3>2. Reached' \ failures' = (Reached \ failures) \cup {check.of} /\ check.of \notin Reached \ failures
      BY <2>1, <2>3, <3>1
    <3>3. Cardinality(Reached' \ failures') = successCount + 1
      BY <3>2, ReachedIsFinite, FS_AddElement DEF ChecksAccountedFor
    <3> QED
      BY <2>1, <2>2, <2>3, <3>1, <3>3 DEF ChecksAccountedFor
  <2>4. CASE SendFails /\ (Notified \/ notified' = notified) /\ successCount' = successCount
    <3>1. failures' = failures \cup {check.of}
      BY <2>4 DEF SendFails
    <3>2. Reached' = Reached \/ Reached' = Reached \cup {check.of}
      BY <2>4, Additions DEF Reached
    <3>3. Reached' \ failures' = Reached \ failures
      BY <2>1, <3>1, <3>2
    <3> QED
      BY <2>1, <2>2, <2>4, <3>1, <3>2, <3>3 DEF ChecksAccountedFor
  <2> QED
    BY <1>2, <2>3, <2>4 DEF CreateNotifications
<1>3. CASE ListNotificationsDefault
  BY <1>3 DEF ListNotificationsDefault, ChecksAccountedFor, Named, Reached
<1>4. CASE FetchPage \/ Discover \/ DiscoveryEnds \/ DrainEnds \/ DrainTarget
  <2>1. UNCHANGED <<successCount, created, notified, failures>> /\ pc \notin {"list", "notify"}
    BY <1>4 DEF FetchPage, Discover, DiscoveryEnds, DrainTarget, DrainEnds
  <2> QED
    BY <2>1 DEF ChecksAccountedFor, Named, Reached
<1>5. CASE UNCHANGED vars
  BY <1>5 DEF vars, ChecksAccountedFor, Named, Reached
<1> QED
  BY <1>1, <1>2, <1>3, <1>4, <1>5 DEF Next, Send

(***************************************************************************)
(* What the checks assert                                                  *)
(***************************************************************************)
LEMMA SourcesStep == ASSUME PoolOK, SourcesOK, [Next]_vars PROVE SourcesOK'
<1> USE DEF sinkVars, fetchVars, poolVars
<1>1. cwAlarms' = cwAlarms => Generated' = Generated
  BY DEF Generated, Generate, RDSAsserts
<1>2. CASE FetchPage
  BY <1>2 DEF FetchPage, SourcesOK, Busy
<1>3. CASE DrainTarget
  <2>1. targets # <<>> /\ cwAlarms' = cwAlarms /\ created' = created /\ pc = "drain"
    BY <1>3 DEF DrainTarget
  <2>2. Head(targets) \in Anything
    BY <2>1, HeadLeaves
  <2>3. /\ pc' \in {"drain", "create"}
        /\ pc' = "create" => check' = Generate(Head(targets))
    BY <1>3 DEF DrainTarget
  <2>4. Generate(Head(targets)) \in Generated
    BY <2>2 DEF Generated
  <2> QED
    BY <1>1, <2>1, <2>3, <2>4 DEF SourcesOK, Busy
<1>4. CASE Send
  <2>1. Busy /\ cwAlarms' = cwAlarms /\ check' = check /\ pc' # "fetch"
    BY <1>4 DEF Send, CreateCheck, ListNotificationsDefault, CreateNotifications, SendFails, Busy
  <2>2. created' \subseteq created \cup {check}
    BY <1>4 DEF Send, CreateCheck, ListNotificationsDefault, CreateNotifications
  <2> QED
    BY <1>1, <2>1, <2>2 DEF SourcesOK
<1>5. CASE Discover \/ DiscoveryEnds \/ DrainEnds
  <2>1. UNCHANGED <<cwAlarms, created, check>> /\ pc' \in {"discover", "drain", "done", "failed"}
    BY <1>5 DEF Discover, DiscoveryEnds, DrainEnds
  <2> QED
    BY <1>1, <2>1 DEF SourcesOK, Busy
<1>6. CASE UNCHANGED vars
  BY <1>1, <1>6 DEF vars, SourcesOK, Busy
<1> QED
  BY <1>2, <1>3, <1>4, <1>5, <1>6 DEF Next

(* What is kept of a list is read in the order of its places: there is one *)
(* increasing way through any places, and it passes by all of them.        *)
Increasing(P) ==
  {f \in [1..Cardinality(P) -> P] : \A j, k \in DOMAIN f : j < k => f[j] < f[k]}

LEMMA PlacesFinite ==
  ASSUME NEW N \in Nat, NEW P \in SUBSET (1..N)
  PROVE  IsFiniteSet(P) /\ Cardinality(P) \in Nat
<1>1. IsFiniteSet(1..N)
  BY FS_Interval
<1>2. IsFiniteSet(P)
  BY <1>1, FS_Subset
<1> QED
  BY <1>2, FS_CardinalityType

LEMMA IncreasingExists ==
  ASSUME NEW N \in Nat, NEW P \in SUBSET (1..N)
  PROVE  Increasing(P) # {}
<1> DEFINE Without == {Q \in SUBSET (1..N) : Increasing(Q) = {}}
           Sizes == {Cardinality(Q) : Q \in Without}
<1> SUFFICES ASSUME Sizes # {} PROVE FALSE
  OBVIOUS
<1>1. Sizes \in SUBSET Nat
  BY PlacesFinite
<1>2. PICK n \in Sizes : \A m \in Sizes : n =< m
  <2> HIDE DEF Sizes
  <2> QED
    BY <1>1, LeastExists
<1>3. PICK Q \in SUBSET (1..N) : Increasing(Q) = {} /\ Cardinality(Q) = n
  BY <1>2
<1>4. n \in Nat /\ IsFiniteSet(Q) /\ \A i \in Q : i \in Nat
  BY <1>3, PlacesFinite
<1>5. Q # {}
  <2> SUFFICES ASSUME Q = {} PROVE FALSE
    OBVIOUS
  <2> DEFINE f == [k \in 1..0 |-> 0]
  <2>1. Cardinality(Q) = 0
    BY FS_EmptySet
  <2>2. f \in [1..0 -> Q] /\ DOMAIN f = {}
    OBVIOUS
  <2> HIDE DEF f
  <2>3. f \in Increasing(Q)
    BY <2>1, <2>2 DEF Increasing
  <2> QED
    BY <1>3, <2>3
<1> DEFINE last == Max(Q)
           rest == Q \ {last}
<1>6. last \in Q /\ \A i \in Q : i =< last
  BY <1>3, <1>5, LastIsOne
<1> HIDE DEF last
<1>7. rest \in SUBSET (1..N) /\ Cardinality(rest) = n - 1
  BY <1>3, <1>4, <1>6, FS_RemoveElement
<1>8. n - 1 \in Nat /\ n >= 1
  <2> HIDE DEF rest
  <2>1. Cardinality(rest) \in Nat
    BY <1>7, PlacesFinite
  <2> QED
    BY <1>4, <1>7, <2>1
<1>9. PICK g : g \in Increasing(rest)
  <2>1. n - 1 \notin Sizes
    BY <1>2, <1>4
  <2>2. rest \notin Without
    BY <1>7, <2>1
  <2> QED
    BY <1>7, <2>2
<1> DEFINE f == [k \in 1..n |-> IF k = n THEN last ELSE g[k]]
<1>10. /\ g \in [1..(n - 1) -> rest]
       /\ \A j, k \in 1..(n - 1) : j < k => g[j] < g[k]
  BY <1>7, <1>9 DEF Increasing
<1>11. \A k \in 1..n : k = n \/ k \in 1..(n - 1)
  BY <1>4, <1>8
<1>12. \A k \in 1..(n - 1) : g[k] \in Q /\ g[k] < last
  <2>1. \A i \in rest : i \in Q /\ i < last
    BY <1>4, <1>6
  <2> QED
    BY <1>10, <2>1
<1>13. f \in [1..n -> Q] /\ DOMAIN f = 1..n
  BY <1>6, <1>11, <1>12
<1>14. ASSUME NEW j \in 1..n, NEW k \in 1..n, j < k PROVE f[j] < f[k]
  <2>1. j \in 1..(n - 1) /\ f[j] = g[j]
    BY <1>4, <1>8, <1>14
  <2> QED
    BY <1>10, <1>11, <1>12, <1>14, <2>1
<1> HIDE DEF f
<1>15. f \in Increasing(Q)
  BY <1>3, <1>13, <1>14 DEF Increasing
<1> QED
  BY <1>3, <1>15

LEMMA IncreasingOnto ==
  ASSUME NEW N \in Nat, NEW P \in SUBSET (1..N), NEW f \in Increasing(P)
  PROVE  \A i \in P : \E k \in 1..Cardinality(P) : f[k] = i
<1>1. Cardinality(P) \in Nat /\ IsFiniteSet(P)
  BY PlacesFinite
<1>2. /\ f \in [1..Cardinality(P) -> P]
      /\ \A j, k \in 1..Cardinality(P) : j < k => f[j] < f[k]
  BY DEF Increasing
<1>3. \A j, k \in 1..Cardinality(P) : f[j] = f[k] => j = k
  <2> SUFFICES ASSUME NEW j \in 1..Cardinality(P), NEW k \in 1..Cardinality(P), f[j] = f[k], j # k
               PROVE  FALSE
    OBVIOUS
  <2>1. j < k \/ k < j
    BY <1>1
  <2>2. f[j] \in Int /\ f[k] \in Int
    <3>1. \A i \in P : i \in Int
      OBVIOUS
    <3> QED
      BY <1>2, <3>1
  <2> QED
    BY <1>2, <2>1, <2>2
<1>4. f \in Injection(1..Cardinality(P), P)
  BY <1>2, <1>3 DEF Injection, IsInjective
<1>5. IsFiniteSet(1..Cardinality(P)) /\ Cardinality(1..Cardinality(P)) = Cardinality(P)
  BY <1>1, FS_Interval
<1>6. f \in Surjection(1..Cardinality(P), P)
  BY <1>1, <1>4, <1>5, FS_Injection
<1> QED
  BY <1>6 DEF Surjection

LEMMA KeptInOrder ==
  ASSUME NEW S, NEW list \in Seq(S), NEW P \in SUBSET DOMAIN list
  PROVE  /\ Kept(list, P) \in Seq(S) /\ Len(Kept(list, P)) = Cardinality(P)
         /\ \E f \in Increasing(P) : /\ \A k \in 1..Cardinality(P) : Kept(list, P)[k] = list[f[k]]
                                     /\ \A i \in P : \E k \in 1..Cardinality(P) : f[k] = i
<1> DEFINE f == CHOOSE g \in [1..Cardinality(P) -> P] :
                  \A j, k \in DOMAIN g : j < k => g[j] < g[k]
<1>1. Len(list) \in Nat /\ DOMAIN list = 1..Len(list) /\ \A i \in DOMAIN list : list[i] \in S
  BY LenProperties, ElementOfSeq
<1>2. P \in SUBSET (1..Len(list)) /\ Cardinality(P) \in Nat
  BY <1>1, PlacesFinite
<1>3. f \in Increasing(P)
  <2>1. \E g \in [1..Cardinality(P) -> P] : \A j, k \in DOMAIN g : j < k => g[j] < g[k]
    BY <1>1, <1>2, IncreasingExists DEF Increasing
  <2> QED
    BY <2>1 DEF Increasing
<1>4. Kept(list, P) = [k \in DOMAIN f |-> list[f[k]]]
  BY DEF Kept
<1> HIDE DEF f
<1>5. DOMAIN f = 1..Cardinality(P) /\ \A k \in 1..Cardinality(P) : f[k] \in P
  BY <1>3 DEF Increasing
<1>6. Kept(list, P) \in [1..Cardinality(P) -> S]
  BY <1>1, <1>2, <1>4, <1>5
<1>7. Kept(list, P) \in Seq(S) /\ Len(Kept(list, P)) = Cardinality(P)
  BY <1>2, <1>6
<1>8. \A i \in P : \E k \in 1..Cardinality(P) : f[k] = i
  BY <1>1, <1>2, <1>3, IncreasingOnto
<1> QED
  BY <1>3, <1>4, <1>5, <1>7, <1>8

LEMMA OwnAlarms ==
  ASSUME cwAlarms \in Seq(Alarms), NEW d
  PROVE  LET own == OfDB(cwAlarms, d)
         IN /\ own \in Seq(Alarms) /\ Own(d) \in SUBSET DOMAIN cwAlarms
            /\ \E f \in [1..Len(own) -> Own(d)] :
                 /\ \A j, k \in 1..Len(own) : j < k => f[j] < f[k]
                 /\ \A k \in 1..Len(own) : own[k] = cwAlarms[f[k]]
                 /\ \A i \in Own(d) : \E k \in 1..Len(own) : f[k] = i
<1>1. {i \in FilterAlarms(cwAlarms, "AWS/RDS") : cwAlarms[i].db = d.name} = Own(d)
  BY DEF FilterAlarms, Own
<1>2. OfDB(cwAlarms, d) = Kept(cwAlarms, Own(d)) /\ Own(d) \in SUBSET DOMAIN cwAlarms
  BY <1>1 DEF OfDB, Own
<1>3. /\ Kept(cwAlarms, Own(d)) \in Seq(Alarms) /\ Len(Kept(cwAlarms, Own(d))) = Cardinality(Own(d))
      /\ \E f \in Increasing(Own(d)) :
           /\ \A k \in 1..Cardinality(Own(d)) : Kept(cwAlarms, Own(d))[k] = cwAlarms[f[k]]
           /\ \A i \in Own(d) : \E k \in 1..Cardinality(Own(d)) : f[k] = i
  BY <1>2, KeptInOrder
<1> DEFINE own == OfDB(cwAlarms, d)
<1>4. own = Kept(cwAlarms, Own(d)) /\ Len(own) = Cardinality(Own(d)) /\ own \in Seq(Alarms)
  BY <1>2, <1>3
<1> HIDE DEF own
<1>5. PICK f \in Increasing(Own(d)) :
        /\ \A k \in 1..Len(own) : own[k] = cwAlarms[f[k]]
        /\ \A i \in Own(d) : \E k \in 1..Len(own) : f[k] = i
  BY <1>3, <1>4
<1>6. f \in [1..Len(own) -> Own(d)] /\ \A j, k \in 1..Len(own) : j < k => f[j] < f[k]
  BY <1>4, <1>5 DEF Increasing
<1> QED
  BY <1>2, <1>4, <1>5, <1>6 DEF own

(* What remains of the loop over the alarms is the last one's threshold. *)
LEMMA LastCounts ==
  ASSUME cwAlarms \in Seq(Alarms), NEW d, NEW metric, NEW default
  PROVE  Limits(d, metric, default) = {Threshold(OfDB(cwAlarms, d), metric, default)}
<1> DEFINE own == OfDB(cwAlarms, d)
           on == {i \in Own(d) : cwAlarms[i].metric = metric}
           I == {k \in 1..Len(own) : own[k].metric = metric}
<1>1. own \in Seq(Alarms) /\ Own(d) \in SUBSET DOMAIN cwAlarms
  BY OwnAlarms
<1>2. PICK f \in [1..Len(own) -> Own(d)] :
        /\ \A j, k \in 1..Len(own) : j < k => f[j] < f[k]
        /\ \A k \in 1..Len(own) : own[k] = cwAlarms[f[k]]
        /\ \A i \in Own(d) : \E k \in 1..Len(own) : f[k] = i
  BY OwnAlarms
<1>3. Len(own) \in Nat /\ DOMAIN cwAlarms \subseteq Nat
  <2> HIDE DEF own
  <2> QED
    BY <1>1, LenProperties
<1>4. Threshold(own, metric, default) = IF (IF I # {} THEN Max(I) ELSE 0) = 0 THEN default
                                        ELSE own[IF I # {} THEN Max(I) ELSE 0].threshold
  BY DEF Threshold, SelectLastInSeq
<1>5. Limits(d, metric, default) =
        IF on = {} THEN {default}
        ELSE {cwAlarms[i].threshold : i \in {j \in on : \A k \in on : k =< j}}
  BY DEF Limits
<1> HIDE DEF own
<1>6. on = {} <=> I = {}
  BY <1>2
<1>7. CASE I = {}
  <2>1. Threshold(own, metric, default) = default /\ Limits(d, metric, default) = {default}
    BY <1>4, <1>5, <1>6, <1>7
  <2> QED
    BY <2>1 DEF own
<1>8. CASE I # {}
  <2> DEFINE last == Max(I)
  <2>1. last \in I /\ (\A k \in I : k =< last) /\ last # 0
    <3>1. I \in SUBSET (1..Len(own))
      OBVIOUS
    <3>2. last \in I /\ \A k \in I : k =< last
      <4> HIDE DEF I
      <4> QED
        BY <1>3, <1>8, <3>1, LastIsOne
    <3> QED
      BY <1>3, <3>2
  <2> HIDE DEF last
  <2>2. f[last] \in on /\ own[last] = cwAlarms[f[last]]
    BY <1>2, <2>1
  <2>3. ASSUME NEW i \in on PROVE i =< f[last]
    <3>1. PICK k \in I : f[k] = i
      BY <1>2, <2>3
    <3>2. k = last \/ k < last
      BY <1>3, <2>1
    <3>3. f[last] \in Int /\ i \in Int
      BY <1>1, <1>3, <2>2
    <3> QED
      BY <1>2, <2>1, <3>1, <3>2, <3>3
  <2>4. {j \in on : \A k \in on : k =< j} = {f[last]}
    <3>1. \A j \in on : j \in Int
      BY <1>1, <1>3
    <3> QED
      BY <2>2, <2>3, <3>1
  <2>5. Limits(d, metric, default) = {own[last].threshold}
    BY <1>5, <1>6, <1>8, <2>2, <2>4
  <2>6. Threshold(own, metric, default) = own[last].threshold
    BY <1>4, <1>8, <2>1 DEF last
  <2> QED
    BY <2>5, <2>6 DEF own
<1> QED
  BY <1>7, <1>8

LEMMA FourParts ==
  ASSUME NEW s, NEW t, NEW u, NEW v,
         \E S : s \in Seq(S), \E S : t \in Seq(S), \E S : u \in Seq(S), \E S : v \in Seq(S)
  PROVE  Range(s \o t \o u \o v) = Range(s) \cup Range(t) \cup Range(u) \cup Range(v)
<1>1. PICK S : s \in Seq(S)
  OBVIOUS
<1>2. PICK T : t \in Seq(T)
  OBVIOUS
<1>3. PICK U : u \in Seq(U)
  OBVIOUS
<1>4. PICK V : v \in Seq(V)
  OBVIOUS
<1> DEFINE W == S \cup T \cup U \cup V
<1>5. s \in Seq(W) /\ t \in Seq(W) /\ u \in Seq(W) /\ v \in Seq(W)
  <2>1. S \subseteq W /\ T \subseteq W /\ U \subseteq W /\ V \subseteq W
    OBVIOUS
  <2> HIDE DEF W
  <2> QED
    BY <1>1, <1>2, <1>3, <1>4, <2>1, SeqMonotonic
<1> HIDE DEF W
<1> DEFINE st == s \o t
           stu == st \o u
<1>6. st \in Seq(W) /\ Range(st) = Range(s) \cup Range(t)
  BY <1>5, ConcatProperties, RangeConcatenation
<1> HIDE DEF st
<1>7. stu \in Seq(W) /\ Range(stu) = Range(st) \cup Range(u)
  BY <1>5, <1>6, ConcatProperties, RangeConcatenation
<1> HIDE DEF stu
<1>8. Range(stu \o v) = Range(stu) \cup Range(v)
  BY <1>5, <1>7, RangeConcatenation
<1> QED
  BY <1>6, <1>7, <1>8 DEF st, stu

LEMMA Singleton ==
  ASSUME NEW x
  PROVE  /\ <<x>> \in Seq({x}) /\ Range(<<x>>) = {x}
         /\ <<>> \in Seq({x}) /\ Range(<<>>) = {}
<1>1. <<x>> \in Seq({x}) /\ DOMAIN <<x>> = 1..1 /\ <<x>>[1] = x
  OBVIOUS
<1>2. <<>> \in Seq({x}) /\ DOMAIN <<>> = {}
  BY EmptySeq
<1> QED
  BY <1>1, <1>2 DEF Range

(* Division, which the prover knows for fixed divisors only. *)
LEMMA Division ==
  ASSUME NEW d \in Nat \ {0}, NEW x \in Int
  PROVE x \div d \in Int /\ x % d \in 0..(d-1) /\ x = d * (x \div d) + (x % d)
OBVIOUS

LEMMA NextMultiple ==
  ASSUME NEW d \in Nat \ {0}, NEW a \in Int, NEW b \in Int, a < b
  PROVE  d * a + d =< d * b
<1>1. b - a >= 1 /\ d >= 1 /\ b - a \in Int
  OBVIOUS
<1>2. d * (b - a) >= d
  BY <1>1
<1>3. d * (b - a) = d * b - d * a
  OBVIOUS
<1>4. d * a \in Int /\ d * b \in Int
  OBVIOUS
<1> QED
  BY <1>2, <1>3, <1>4

LEMMA DivisionIsUnique ==
  ASSUME NEW d \in Nat \ {0}, NEW q \in Int, NEW r \in 0..(d-1)
  PROVE  (d * q + r) % d = r /\ (d * q + r) \div d = q
<1> DEFINE x == d * q + r
<1>1. x \in Int
  OBVIOUS
<1> DEFINE k == x \div d
<1> HIDE DEF x
<1>2. k \in Int /\ x % d \in 0..(d-1) /\ x = d * k + (x % d)
  BY <1>1, Division
<1> HIDE DEF k
<1>3. k = q
  <2>1. ~(q < k)
    <3> SUFFICES ASSUME q < k PROVE FALSE
      OBVIOUS
    <3>1. d * q + d =< d * k
      BY <1>2, NextMultiple
    <3> QED
      BY <1>2, <3>1 DEF x
  <2>2. ~(k < q)
    <3> SUFFICES ASSUME k < q PROVE FALSE
      OBVIOUS
    <3>1. d * k + d =< d * q
      BY <1>2, NextMultiple
    <3> QED
      BY <1>2, <3>1 DEF x
  <2> QED
    BY <1>2, <2>1, <2>2
<1>4. x % d = r
  BY <1>2, <1>3 DEF x
<1> QED
  BY <1>3, <1>4 DEF k, x

(* The thousandth that the formatting computes is the one thousandth that  *)
(* is nearest, or of two equally near ones the even one.                   *)
LEMMA RoundedIsPrinted ==
  ASSUME NEW x \in Int
  PROVE  Rounded(x) = {Printed(x)}
<1> DEFINE k == x \div Mil
           rest == x % Mil
           low == Mil * k
           half == 2 * Mil
           up == 2 * rest > Mil \/ (2 * rest = Mil /\ k % 2 # 0)
<1>0. Mil \in Nat \ {0}
  BY BoundsAssumption
<1>1. k \in Int /\ rest \in 0..(Mil - 1) /\ x = low + rest
  BY <1>0, Division
<1>2. Printed(x) = IF up THEN Mil * (k + 1) ELSE low
  BY <1>0, <1>1 DEF Printed
<1>3. Mil * (k + 1) = low + Mil /\ low \in Int
  BY <1>0, <1>1
(* What is printed is a whole number of thousandths. *)
<1>4. low % Mil = 0 /\ (low + Mil) % Mil = 0
  <2>1. (Mil * k + 0) % Mil = 0 /\ (Mil * (k + 1) + 0) % Mil = 0
    BY <1>0, <1>1, DivisionIsUnique
  <2> QED
    BY <1>0, <1>1, <1>3, <2>1
(* One that is near enough is one of the two next to x. *)
<1>5. ASSUME NEW y \in (x - Mil)..(x + Mil), y % Mil = 0, 2 * (y - x) =< Mil, 2 * (x - y) =< Mil
      PROVE  y = low \/ y = low + Mil
  <2> DEFINE j == y \div Mil
  <2>1. j \in Int /\ y = Mil * j
    <3>1. y \in Int
      BY <1>0, <1>1
    <3> QED
      BY <1>0, <1>5, <3>1, Division
  <2> HIDE DEF j, low, k, rest
  <2>2. ~(j < k)
    <3> SUFFICES ASSUME j < k PROVE FALSE
      OBVIOUS
    <3>1. Mil * j + Mil =< Mil * k
      BY <1>0, <1>1, <2>1, NextMultiple
    <3> QED
      BY <1>0, <1>1, <1>3, <1>5, <2>1, <3>1 DEF low
  <2>3. ~(k + 1 < j)
    <3> SUFFICES ASSUME k + 1 < j PROVE FALSE
      OBVIOUS
    <3>1. Mil * (k + 1) + Mil =< Mil * j
      BY <1>0, <1>1, <2>1, NextMultiple
    <3> QED
      BY <1>0, <1>1, <1>3, <1>5, <2>1, <3>1
  <2>4. j = k \/ j = k + 1
    BY <1>1, <2>1, <2>2, <2>3
  <2> QED
    BY <1>3, <2>1, <2>4 DEF low
(* One of the two is even. *)
<1>6. /\ k % 2 = 0 => low % half = 0 /\ (low + Mil) % half = Mil
      /\ k % 2 # 0 => low % half = Mil /\ (low + Mil) % half = 0
  <2> DEFINE m == k \div 2
  <2>1. m \in Int /\ k % 2 \in 0..1 /\ k = 2 * m + (k % 2)
    BY <1>1
  <2>2. half \in Nat \ {0} /\ Mil \in 0..(half - 1) /\ 0 \in 0..(half - 1)
    BY <1>0
  <2> HIDE DEF m, k
  <2>3. CASE k % 2 = 0
    <3>1. k = 2 * m
      BY <2>1, <2>3
    <3>2. low = half * m + 0 /\ low + Mil = half * m + Mil
      BY <1>0, <2>1, <3>1
    <3> HIDE DEF low, half
    <3> QED
      BY <2>1, <2>2, <2>3, <3>2, DivisionIsUnique
  <2>4. CASE k % 2 # 0
    <3>1. k = 2 * m + 1
      BY <2>1, <2>4
    <3>2. low = half * m + Mil /\ low + Mil = half * (m + 1) + 0 /\ m + 1 \in Int
      BY <1>0, <2>1, <3>1
    <3> HIDE DEF low, half
    <3> QED
      BY <2>1, <2>2, <2>4, <3>2, DivisionIsUnique
  <2> QED
    BY <2>3, <2>4
<1> HIDE DEF low, k, rest, half
<1>7. \A y : y \in Rounded(x) <=>
        /\ y \in (x - Mil)..(x + Mil) /\ y % Mil = 0
        /\ \/ 2 * (y - x) < Mil /\ 2 * (x - y) < Mil
           \/ (2 * (y - x) = Mil \/ 2 * (x - y) = Mil) /\ y % half = 0
  BY DEF Rounded, half
<1>8. CASE up
  <2>1. Printed(x) = low + Mil
    BY <1>2, <1>3, <1>8
  <2>2. low + Mil \in Rounded(x)
    <3>1. low + Mil \in (x - Mil)..(x + Mil)
      BY <1>0, <1>1, <1>3
    <3>2. 2 * ((low + Mil) - x) = 2 * Mil - 2 * rest /\ 2 * (x - (low + Mil)) = 2 * rest - 2 * Mil
      BY <1>0, <1>1, <1>3
    <3> QED
      BY <1>0, <1>1, <1>4, <1>6, <1>7, <1>8, <3>1, <3>2
  <2>3. ASSUME NEW y \in Rounded(x) PROVE y = low + Mil
    <3>1. y \in (x - Mil)..(x + Mil) /\ y % Mil = 0 /\ 2 * (y - x) =< Mil /\ 2 * (x - y) =< Mil
      BY <1>0, <1>1, <1>3, <1>7, <2>3
    <3>2. y = low \/ y = low + Mil
      BY <1>5, <3>1
    <3>3. y # low
      <4> SUFFICES ASSUME y = low PROVE FALSE
        OBVIOUS
      <4>1. 2 * (x - low) = 2 * rest /\ 2 * (low - x) = -(2 * rest)
        BY <1>1, <1>3
      <4>2. 2 * rest = Mil /\ k % 2 # 0 /\ low % half = 0
        BY <1>0, <1>1, <1>7, <1>8, <2>3, <4>1
      <4> QED
        BY <1>0, <1>6, <4>2
    <3> QED
      BY <3>2, <3>3
  <2> QED
    BY <2>1, <2>2, <2>3
<1>9. CASE ~up
  <2>1. Printed(x) = low
    BY <1>2, <1>9
  <2>2. 2 * (x - low) = 2 * rest /\ 2 * (low - x) = -(2 * rest)
    BY <1>1, <1>3
  <2>3. low \in Rounded(x)
    <3>1. low \in (x - Mil)..(x + Mil)
      BY <1>0, <1>1, <1>3
    <3>2. 2 * rest < Mil \/ (2 * rest = Mil /\ k % 2 = 0)
      BY <1>0, <1>1, <1>9
    <3>3. CASE 2 * rest < Mil
      <4>1. 2 * (low - x) < Mil /\ 2 * (x - low) < Mil
        BY <1>0, <1>1, <2>2, <3>3
      <4> QED
        BY <1>4, <1>7, <3>1, <4>1
    <3>4. CASE 2 * rest = Mil /\ k % 2 = 0
      <4>1. 2 * (x - low) = Mil /\ low % half = 0
        BY <1>6, <2>2, <3>4
      <4> QED
        BY <1>4, <1>7, <3>1, <4>1
    <3> QED
      BY <3>2, <3>3, <3>4
  <2>4. ASSUME NEW y \in Rounded(x) PROVE y = low
    <3>1. y \in (x - Mil)..(x + Mil) /\ y % Mil = 0 /\ 2 * (y - x) =< Mil /\ 2 * (x - y) =< Mil
      BY <1>0, <1>1, <1>3, <1>7, <2>4
    <3>2. y = low \/ y = low + Mil
      BY <1>5, <3>1
    <3>3. y # low + Mil
      <4> SUFFICES ASSUME y = low + Mil PROVE FALSE
        OBVIOUS
      <4>1. 2 * (y - x) = 2 * Mil - 2 * rest /\ 2 * (x - y) = 2 * rest - 2 * Mil
        BY <1>0, <1>1, <1>3
      <4>2. 2 * rest = Mil /\ k % 2 = 0 /\ (low + Mil) % half = 0
        BY <1>0, <1>1, <1>7, <1>9, <2>4, <4>1
      <4> QED
        BY <1>0, <1>6, <4>2
    <3> QED
      BY <3>2, <3>3
  <2> QED
    BY <2>1, <2>3, <2>4
<1> QED
  BY <1>8, <1>9

LEMMA WholeIsRounded == \A x \in Int : Whole(x) = x - (x % One)
<1> SUFFICES ASSUME NEW x \in Int PROVE Whole(x) = x - (x % One)
  OBVIOUS
<1>1. One \in Nat \ {0}
  BY BoundsAssumption DEF One
<1> HIDE DEF One
<1> DEFINE q == x \div One
           r == x % One
           w == One * q
<1>2. q \in Int /\ r \in 0..(One - 1) /\ x = w + r
  BY <1>1, Division
<1>3. w \in Int
  BY <1>1, <1>2
<1> HIDE DEF q, r, w
<1>4. w = x - r
  BY <1>1, <1>2, <1>3
<1> QED
  BY <1>4 DEF Whole, q, r, w

(* The assertions on what is not asserted by default are those of the      *)
(* database's own alarms.                                                  *)
LEMMA ImportedOnly ==
  ASSUME cwAlarms \in Seq(Alarms), NEW d
  PROVE  LET import == Imported(OfDB(cwAlarms, d))
             asserts == [i \in DOMAIN import |->
               Assertion(import[i].metric, Relationship(import[i]), Printed(import[i].threshold))]
         IN /\ asserts \in Seq(Range(asserts))
            /\ Range(asserts) =
                 {Assertion(cwAlarms[i].metric, Relationship(cwAlarms[i]), Printed(cwAlarms[i].threshold)) :
                    i \in {j \in Own(d) : cwAlarms[j].metric \notin Defaulted /\ cwAlarms[j].average}}
<1> DEFINE own == OfDB(cwAlarms, d)
           P == {k \in DOMAIN own : own[k].metric \notin Defaulted /\ own[k].average}
           import == Imported(own)
           For(a) == Assertion(a.metric, Relationship(a), Printed(a.threshold))
           asserts == [i \in DOMAIN import |-> For(import[i])]
           on == {j \in Own(d) : cwAlarms[j].metric \notin Defaulted /\ cwAlarms[j].average}
<1>1. own \in Seq(Alarms) /\ Own(d) \in SUBSET DOMAIN cwAlarms
  BY OwnAlarms
<1>2. PICK f \in [1..Len(own) -> Own(d)] :
        /\ \A k \in 1..Len(own) : own[k] = cwAlarms[f[k]]
        /\ \A i \in Own(d) : \E k \in 1..Len(own) : f[k] = i
  BY OwnAlarms
<1>3. import = Kept(own, P)
  BY DEF Imported
<1> HIDE DEF own
<1>4. Len(own) \in Nat /\ DOMAIN own = 1..Len(own) /\ P \in SUBSET DOMAIN own
  BY <1>1, LenProperties
<1> HIDE DEF P
<1>5. import \in Seq(Alarms) /\ Len(import) = Cardinality(P)
  BY <1>1, <1>3, <1>4, KeptInOrder
<1>6. PICK g \in Increasing(P) : /\ \A k \in 1..Cardinality(P) : Kept(own, P)[k] = own[g[k]]
                                /\ \A i \in P : \E k \in 1..Cardinality(P) : g[k] = i
  BY <1>1, <1>4, KeptInOrder
<1> HIDE DEF import
<1>7. Len(import) \in Nat /\ DOMAIN import = 1..Len(import)
  BY <1>5, LenProperties
<1>8. \A k \in 1..Len(import) : g[k] \in P
  BY <1>5, <1>6 DEF Increasing
<1>9. asserts \in Seq(Range(asserts)) /\ DOMAIN asserts = 1..Len(import)
  <2> DEFINE n == Len(import)
  <2>1. DOMAIN asserts = 1..n /\ n \in Nat
    BY <1>7
  <2>2. asserts \in [1..n -> Range(asserts)]
    BY <2>1 DEF Range
  <2> HIDE DEF asserts, n
  <2> QED
    BY <2>1, <2>2 DEF n
<1>10. ASSUME NEW a \in Range(asserts) PROVE a \in {For(cwAlarms[i]) : i \in on}
  <2>1. PICK k \in 1..Len(import) : a = For(import[k])
    BY <1>9 DEF Range
  <2>2. import[k] = own[g[k]] /\ g[k] \in P
    BY <1>3, <1>5, <1>6, <1>8
  <2>3. f[g[k]] \in on /\ own[g[k]] = cwAlarms[f[g[k]]]
    BY <1>2, <1>4, <2>2 DEF P
  <2> QED
    BY <2>1, <2>2, <2>3
<1>11. ASSUME NEW i \in on PROVE For(cwAlarms[i]) \in Range(asserts)
  <2>1. PICK j \in 1..Len(own) : f[j] = i /\ own[j] = cwAlarms[i]
    BY <1>2
  <2>2. j \in P
    BY <1>4, <2>1 DEF P
  <2>3. PICK k \in 1..Len(import) : g[k] = j /\ import[k] = own[j]
    BY <1>3, <1>5, <1>6, <2>2
  <2> QED
    BY <1>9, <2>1, <2>3 DEF Range
<1>12. Range(asserts) = {For(cwAlarms[i]) : i \in on}
  BY <1>10, <1>11
<1> QED
  BY <1>9, <1>12 DEF import, own

LEMMA LimitsAreNumbers ==
  ASSUME cwAlarms \in Seq(Alarms), NEW d, NEW metric, NEW default \in Int
  PROVE  Limits(d, metric, default) \in SUBSET Int
<1>1. \A i \in Own(d) : cwAlarms[i] \in Alarms
  BY DEF Own
<1>2. \A a \in Alarms : a.threshold \in Int
  BY DEF Alarms
<1> QED
  BY <1>1, <1>2 DEF Limits

LEMMA ImportedRounded ==
  ASSUME cwAlarms \in Seq(Alarms), NEW d
  PROVE  LET on == {j \in Own(d) : cwAlarms[j].metric \notin Defaulted /\ cwAlarms[j].average}
         IN {Assertion(cwAlarms[i].metric, Relationship(cwAlarms[i]), Printed(cwAlarms[i].threshold)) :
               i \in on}
            = UNION {{Assertion(cwAlarms[i].metric, Relationship(cwAlarms[i]), y) :
                        y \in Rounded(cwAlarms[i].threshold)} : i \in on}
<1>1. \A i \in Own(d) : cwAlarms[i] \in Alarms
  BY DEF Own
<1>2. \A a \in Alarms : a.threshold \in Int
  BY DEF Alarms
<1>3. \A i \in Own(d) : Rounded(cwAlarms[i].threshold) = {Printed(cwAlarms[i].threshold)}
  BY <1>1, <1>2, RoundedIsPrinted
<1> DEFINE on == {j \in Own(d) : cwAlarms[j].metric \notin Defaulted /\ cwAlarms[j].average}
           For(i, y) == Assertion(cwAlarms[i].metric, Relationship(cwAlarms[i]), y)
           Those(i) == {For(i, y) : y \in Rounded(cwAlarms[i].threshold)}
           That(i) == For(i, Printed(cwAlarms[i].threshold))
<1>4. \A i \in on : Those(i) = {That(i)}
  BY <1>3
<1>5. {That(i) : i \in on} = UNION {Those(i) : i \in on}
  <2> HIDE DEF That, Those, on
  <2> QED
    BY <1>4
<1> QED
  BY <1>5

LEMMA AssertsOf ==
  ASSUME cwAlarms \in Seq(Alarms), NEW d \in Databases, NEW c, c.asserts = RDSAsserts(d)
  PROVE  /\ About(c, "CPUUtilization") =
              {Assertion("CPUUtilization", "lessThan", y) :
                 y \in UNION {Rounded(x) : x \in Limits(d, "CPUUtilization", MaxCPU)}}
         /\ About(c, "DatabaseConnections") =
              {Assertion("DatabaseConnections", "lessThan", x - (x % One)) :
                 x \in {y \in Limits(d, "DatabaseConnections", d.maxConnections) : y > 0}}
         /\ About(c, "FreeableMemory") =
              {Assertion("FreeableMemory", "greaterThan", y) :
                 y \in UNION {Rounded(x) :
                               x \in {z \in Limits(d, "FreeableMemory", d.minMemory) : z > 0}}}
         /\ {a \in Range(c.asserts) : a.metric \notin Defaulted} =
              UNION {{Assertion(cwAlarms[i].metric, Relationship(cwAlarms[i]), y) :
                        y \in Rounded(cwAlarms[i].threshold)} :
                 i \in {j \in Own(d) : cwAlarms[j].metric \notin Defaulted /\ cwAlarms[j].average}}
<1> DEFINE own == OfDB(cwAlarms, d)
           cpu == Threshold(own, "CPUUtilization", MaxCPU)
           connections == Threshold(own, "DatabaseConnections", d.maxConnections)
           memory == Threshold(own, "FreeableMemory", d.minMemory)
           import == Imported(own)
           first == Assertion("CPUUtilization", "lessThan", Printed(cpu))
           second == Assertion("DatabaseConnections", "lessThan", Whole(connections))
           third == Assertion("FreeableMemory", "greaterThan", Printed(memory))
           s2 == IF connections > 0 THEN <<second>> ELSE <<>>
           s3 == IF memory > 0 THEN <<third>> ELSE <<>>
           s4 == [i \in DOMAIN import |->
                    Assertion(import[i].metric, Relationship(import[i]), Printed(import[i].threshold))]
           rest == {Assertion(cwAlarms[i].metric, Relationship(cwAlarms[i]), Printed(cwAlarms[i].threshold)) :
                      i \in {j \in Own(d) : cwAlarms[j].metric \notin Defaulted /\ cwAlarms[j].average}}
<1>1. /\ Limits(d, "CPUUtilization", MaxCPU) = {cpu}
      /\ Limits(d, "DatabaseConnections", d.maxConnections) = {connections}
      /\ Limits(d, "FreeableMemory", d.minMemory) = {memory}
  BY LastCounts
<1>2. cpu \in Int /\ connections \in Int /\ memory \in Int
  <2>1. d.maxConnections \in Int /\ d.minMemory \in Int /\ MaxCPU \in Int
    BY AlarmsAssumption, BoundsAssumption
  <2>2. /\ Limits(d, "CPUUtilization", MaxCPU) \in SUBSET Int
        /\ Limits(d, "DatabaseConnections", d.maxConnections) \in SUBSET Int
        /\ Limits(d, "FreeableMemory", d.minMemory) \in SUBSET Int
    BY <2>1, LimitsAreNumbers
  <2> HIDE DEF cpu, connections, memory
  <2> QED
    BY <1>1, <2>2
<1>3. s4 \in Seq(Range(s4)) /\ Range(s4) = rest
  BY ImportedOnly
<1>4. c.asserts = <<first>> \o s2 \o s3 \o s4
  BY DEF RDSAsserts
<1>5. Whole(connections) = connections - (connections % One)
  <2> HIDE DEF connections
  <2> QED
    BY <1>2, WholeIsRounded
<1>5a. /\ Rounded(cpu) = {Printed(cpu)} /\ Rounded(memory) = {Printed(memory)}
       /\ rest = UNION {{Assertion(cwAlarms[i].metric, Relationship(cwAlarms[i]), y) :
                           y \in Rounded(cwAlarms[i].threshold)} :
                    i \in {j \in Own(d) : cwAlarms[j].metric \notin Defaulted /\ cwAlarms[j].average}}
  <2>1. rest = UNION {{Assertion(cwAlarms[i].metric, Relationship(cwAlarms[i]), y) :
                          y \in Rounded(cwAlarms[i].threshold)} :
                    i \in {j \in Own(d) : cwAlarms[j].metric \notin Defaulted /\ cwAlarms[j].average}}
    BY ImportedRounded
  <2> HIDE DEF cpu, memory, rest
  <2> QED
    BY <1>2, <2>1, RoundedIsPrinted
<1>6. /\ first.metric = "CPUUtilization" /\ second.metric = "DatabaseConnections"
      /\ third.metric = "FreeableMemory" /\ \A a \in rest : a.metric \notin Defaulted
  BY DEF Assertion
<1> HIDE DEF first, second, third, s4, rest, connections, memory, cpu
<1>7. s2 \in Seq({second}) /\ Range(s2) = {second : x \in {y \in {connections} : y > 0}}
  <2>1. /\ <<second>> \in Seq({second}) /\ Range(<<second>>) = {second}
        /\ <<>> \in Seq({second}) /\ Range(<<>>) = {}
    BY Singleton
  <2> QED
    BY <2>1
<1>8. s3 \in Seq({third}) /\ Range(s3) = {third : x \in {y \in {memory} : y > 0}}
  <2>1. /\ <<third>> \in Seq({third}) /\ Range(<<third>>) = {third}
        /\ <<>> \in Seq({third}) /\ Range(<<>>) = {}
    BY Singleton
  <2> QED
    BY <2>1
<1>9. <<first>> \in Seq({first}) /\ Range(<<first>>) = {first}
  BY Singleton
<1> HIDE DEF s2, s3
<1>10. Range(c.asserts) = {first} \cup Range(s2) \cup Range(s3) \cup rest
  <2> DEFINE s1 == <<first>>
  <2>1. \E S : s1 \in Seq(S)
    BY <1>9
  <2>2. \E S : s2 \in Seq(S)
    BY <1>7
  <2>3. \E S : s3 \in Seq(S)
    BY <1>8
  <2>4. \E S : s4 \in Seq(S)
    BY <1>3
  <2>5. Range(s1) = {first} /\ c.asserts = s1 \o s2 \o s3 \o s4
    BY <1>4, <1>9
  <2> HIDE DEF s1
  <2>6. Range(s1 \o s2 \o s3 \o s4) = Range(s1) \cup Range(s2) \cup Range(s3) \cup Range(s4)
    BY <2>1, <2>2, <2>3, <2>4, FourParts
  <2> QED
    BY <1>3, <2>5, <2>6
<1>11. \A a \in Range(s2) : a = second
  BY <1>7
<1>12. \A a \in Range(s3) : a = third
  BY <1>8
<1>13. /\ About(c, "CPUUtilization") = {first} /\ About(c, "DatabaseConnections") = Range(s2)
       /\ About(c, "FreeableMemory") = Range(s3)
       /\ {a \in Range(c.asserts) : a.metric \notin Defaulted} = rest
  BY <1>6, <1>10, <1>11, <1>12 DEF About, Defaulted
<1>14. /\ Range(s2) = {Assertion("DatabaseConnections", "lessThan", x - (x % One)) :
                         x \in {y \in {connections} : y > 0}}
       /\ Range(s3) = {Assertion("FreeableMemory", "greaterThan", y) :
                         y \in UNION {Rounded(x) : x \in {z \in {memory} : z > 0}}}
       /\ {first} = {Assertion("CPUUtilization", "lessThan", y) :
                       y \in UNION {Rounded(x) : x \in {cpu}}}
  <2>1. second = Assertion("DatabaseConnections", "lessThan", connections - (connections % One))
    BY <1>5 DEF second
  <2>2. third = Assertion("FreeableMemory", "greaterThan", Printed(memory))
        /\ first = Assertion("CPUUtilization", "lessThan", Printed(cpu))
    BY DEF first, third
  <2>3. /\ UNION {Rounded(x) : x \in {cpu}} = {Printed(cpu)}
        /\ UNION {Rounded(x) : x \in {z \in {memory} : z > 0}} = {Printed(memory) : x \in {z \in {memory} : z > 0}}
    BY <1>5a
  <2>4. Range(s2) = {Assertion("DatabaseConnections", "lessThan", x - (x % One)) :
                         x \in {y \in {connections} : y > 0}}
    BY <1>7, <2>1
  <2>5. Range(s3) = {Assertion("FreeableMemory", "greaterThan", y) :
                       y \in {Printed(memory) : x \in {z \in {memory} : z > 0}}}
    BY <1>8, <2>2
  <2> QED
    BY <2>2, <2>3, <2>4, <2>5
<1> QED
  BY <1>1, <1>5a, <1>13, <1>14

LEMMA Invariance == Spec => []Inv
<1>1. Inv /\ [Next]_vars => Inv'
  BY FetchStep, PoolStep, CurrentStep, ContactsStep, SourcesStep, CountStep DEF Inv
<1> QED
  BY InitInv, <1>1, PTL DEF Spec

(***************************************************************************)
(* What follows                                                            *)
(***************************************************************************)
(* The counts of a launch's checks add up although bartnet or hugs may     *)
(* have done what they answered with an error: Send is called once for     *)
(* each target, and the pool forgets it before.                            *)
THEOREM Accounts == Spec => []ChecksAccountedFor
<1>1. Inv => ChecksAccountedFor
  BY DEF Inv
<1> QED
  BY Invariance, <1>1, PTL

(* The sink asks for the default notifications once and keeps what it used *)
(* for the first check, so that the whole launch notifies the same people. *)
THEOREM Contacted == Spec => []SameContacts
<1>1. Inv => SameContacts
  BY DEF Inv, ContactsOK, SameContacts
<1> QED
  BY Invariance, <1>1, PTL

(* Every assertion of a database's check has its source: the last of the   *)
(* customer's alarms on it, as far as they were fetched, or else its class *)
(* for the three limits, and one of its own alarms for any other.          *)
THEOREM Sources == Spec => []AssertsHaveASource
<1>1. ASSUME Inv, NEW d \in Databases, NEW c \in created, c.of = d.name
      PROVE  /\ IsPrefix(cwAlarms, alarms) /\ (cwAlarms = alarms \/ cut)
             /\ cwAlarms \in Seq(Alarms) /\ c.asserts = RDSAsserts(d)
  <2>1. pc # "fetch" /\ c \in Generated
    BY <1>1 DEF Inv, SourcesOK
  <2>2. PICK t \in Anything : c = Generate(t)
    BY <2>1 DEF Generated
  <2>3. t = d
    BY <1>1, <2>2, GenerateNames, NamesAssumption DEF Anything
  <2>4. c.asserts = RDSAsserts(d)
    BY <2>2, <2>3 DEF Generate
  <2>5. cwAlarms \in Seq(Range(alarms)) /\ Range(alarms) \in SUBSET Alarms
    BY <1>1, ListsOfAlarms DEF Inv, FetchOK
  <2>6. cwAlarms \in Seq(Alarms)
    BY <2>5, SeqMonotonic
  <2> QED
    BY <1>1, <2>1, <2>4, <2>6 DEF Inv, FetchOK
<1>2. ASSUME Inv PROVE AssertsHaveASource
  BY <1>1, <1>2, AssertsOf DEF AssertsHaveASource
<1> QED
  BY Invariance, <1>2, PTL

(* Types, and that nothing is said of a check of something not discovered. *)
THEOREM TypeCorrect == Spec => []TypeOK
<1>1. ASSUME Inv PROVE TypeOK
  <2>1. {t.name : t \in found} = Names(found)
    BY DEF Names
  <2>2. Taken \subseteq found
    BY DEF Taken
  <2>3. Handled \subseteq Names(found)
    BY <1>1, <2>2 DEF Inv, PoolOK, Names
  <2>4. successCount \in 0..Cardinality(found)
    <3>1. IsFiniteSet(found) /\ successCount = Cardinality(Reached \ failures)
      BY <1>1 DEF Inv, PoolOK, ChecksAccountedFor
    <3>2. IsFiniteSet(Names(found)) /\ Cardinality(Names(found)) =< Cardinality(found)
      BY <3>1, NamesFinite
    <3>3. Cardinality(Reached \ failures) =< Cardinality(Names(found))
      BY <2>3, <3>2, FS_Subset DEF Handled
    <3>4. /\ Cardinality(Reached \ failures) \in Nat /\ Cardinality(Names(found)) \in Nat
          /\ Cardinality(found) \in Nat
      BY <1>1, <3>1, <3>2, ReachedIsFinite, FS_CardinalityType DEF Inv
    <3> QED
      BY <3>1, <3>2, <3>3, <3>4
  <2>5. /\ pc \in Places /\ page \in 0..MaxPages /\ cut \in BOOLEAN
        /\ cwAlarms \in Seq(Range(alarms))
    BY <1>1 DEF Inv, FetchOK
  <2>6. /\ Range(targets) \subseteq found /\ found \subseteq Anything /\ IsInjective(targets)
        /\ defaultNotifs \in SUBSET (Contacts \cup {"email"})
    BY <1>1 DEF Inv, PoolOK, ContactsOK
  <2> QED
    BY <2>1, <2>3, <2>4, <2>5, <2>6 DEF TypeOK, Handled, Anything
<1> QED
  BY Invariance, <1>1, PTL

(* The alarms that the checks are made of are the customer's first ones,   *)
(* and all of them unless a page failed or the limit was reached.          *)
THEOREM AlarmsFetched ==
  Spec => [](IsPrefix(cwAlarms, alarms) /\ (pc # "fetch" => cwAlarms = alarms \/ cut))
<1>1. Inv => IsPrefix(cwAlarms, alarms) /\ (pc # "fetch" => cwAlarms = alarms \/ cut)
  BY DEF Inv, FetchOK
<1> QED
  BY Invariance, <1>1, PTL
=============================================================================
