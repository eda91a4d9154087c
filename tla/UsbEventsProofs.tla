-------------------------- MODULE UsbEventsProofs --------------------------
(***************************************************************************)
(* Proofs about UsbEvents: for any number of callers and openers, any        *)
(* timeouts and any submissions refused, the state is well typed, no thread  *)
(* is in poll with an old set of fds, and, as long as event handling failed  *)
(* at most once, no transfer is freed while it is active, touched after it   *)
(* was freed, or completed twice.                                            *)
(*                                                                         *)
(* The actions are sorted by who acts: a step of an opener leaves the        *)
(* transfers alone, a step of a caller the counts of the openers.            *)
(***************************************************************************)
EXTENDS UsbEvents, FiniteSetTheorems, SequenceTheorems, WellFoundedInduction, TLAPS

\* Where a caller, and where an opener, may be.
CallerPlaces ==
  {"submit", "backend", "arm", "del", "loop", "next", "read_next", "try", "check", "wait",
   "woken", "timeouts", "scan", "cancel", "poll", "disarm", "reap", "complete", "callback",
   "notify", "unlock", "broadcast", "failed", "done"}

OpenerPlaces ==
  {"open", "modify", "lock_events", "read", "do_close", "remove", "unlock", "broadcast", "done"}

Statuses == {"none", "COMPLETED", "TIMED_OUT", "CANCELLED"}

\* The transfers in a list.
Listed(d, list) == \E n \in 1 .. Len(list) : list[n] = d

PlacesInv ==
  /\ pc \in [Threads -> CallerPlaces \cup OpenerPlaces]
  /\ \A c \in Callers : pc[c] \in CallerPlaces
  /\ \A o \in Openers : pc[o] \in OpenerPlaces

\* The types of all variables.
TransfersInv ==
  /\ setup \in Setups
  /\ now \in Nat /\ timer \in Nat
  /\ fly \in Threads \cup {None} /\ events \in Threads \cup {None}
  /\ tlock \in [Callers -> Callers \cup {None}]
  /\ deadline \in [Callers -> Nat]
  /\ flags \in [Callers -> SUBSET {"TIMED_OUT", "CANCELLING"}]
  /\ urb \in [Callers -> {"none", "queued", "ready", "killed"}]
  /\ status \in [Callers -> Statuses]
  /\ freed \subseteq Callers /\ quit \subseteq Callers /\ fds \subseteq Openers
  /\ active \in BOOLEAN
  /\ errors \in 0 .. setup.errors

ThreadsInv ==
  /\ polled \in [Threads -> SUBSET Openers]
  /\ found \in [Threads -> SUBSET {"first", "ctrl", "timer", "dev", "interrupted", "io"}]
  /\ wake \in [Threads -> Nat]
  /\ cur \in [Threads -> Callers \cup {None}]
  /\ verdict \in [Threads -> Statuses]
  /\ job \in [Openers -> {"open", "close"}]

ListInv == flying \in Seq(Callers) /\ IsInjective(flying)

\* Who handles events holds events_lock, who looks at the list for expired
\* timeouts holds flying_transfers_lock.
LockInv ==
  \A t \in Threads :
    /\ pc[t] \in {"poll", "disarm", "reap", "complete", "callback", "notify", "unlock",
                  "read", "do_close", "remove"} => events = t
    /\ pc[t] \in {"scan", "cancel"} => fly = t

\* The life of a transfer: in the list from its submission until it is refused or
\* completed, with the kernel only while it is in the list, without a status until
\* it is off the list.
LifeInv ==
  \A c \in Callers :
    /\ pc[c] = "submit" => ~Listed(c, flying) /\ flags[c] = {}
    /\ pc[c] \in {"submit", "backend", "del"} => urb[c] = "none" /\ status[c] = "none"
    /\ pc[c] \in {"backend", "del"} => Listed(c, flying)
    /\ urb[c] # "none" => Listed(c, flying)
    /\ Listed(c, flying) => status[c] = "none"

\* Whoever is at a transfer: it is in the list while it is cancelled and until its
\* completion, which comes after the kernel is done with it and before its status.
AtInv ==
  \A t \in Threads :
    /\ pc[t] = "cancel" => cur[t] \in Callers /\ Listed(cur[t], flying)
    /\ pc[t] = "complete" => cur[t] \in Callers /\ Listed(cur[t], flying)
    /\ pc[t] = "callback" => cur[t] \in Callers /\ ~Listed(cur[t], flying)
    /\ pc[t] \in {"complete", "callback"} =>
         /\ urb[cur[t]] = "none" /\ status[cur[t]] = "none"
         /\ pc[cur[t]] \notin {"submit", "backend", "del"}

\* What says that a transfer timed out is right.
TimedOutInv ==
  /\ \A c \in Callers : "TIMED_OUT" \in flags[c] => Expired(c)
  /\ \A t \in Threads :
       pc[t] \in {"complete", "callback"} =>
         verdict[t] # "none" /\ (verdict[t] = "TIMED_OUT" => Expired(cur[t]))
  /\ \A c \in Callers : status[c] = "TIMED_OUT" => Expired(c)

\* A caller that handles an error of poll, or the second error in its call.
Failing(c) == pc[c] = "failed" \/ "io" \in found[c] \/ "interrupted" \in found[c]

\* Errors are counted, and known only until the broadcast.
ErrorsInv ==
  /\ \A c \in Callers : pc[c] \notin {"unlock", "broadcast"} =>
                          "io" \notin found[c] /\ "interrupted" \notin found[c]
  /\ errors = 0 => \A c \in Callers : c \notin quit /\ ~Failing(c)

\* As long as there was one error at most: nobody's second loop fails, and what is
\* freed is off the list, with neither the kernel nor anybody at it.
FreedInv ==
  errors <= 1 =>
    /\ \A c \in quit : ~Failing(c)
    /\ \A c \in freed :
         /\ pc[c] = "done" /\ ~Listed(c, flying) /\ urb[c] = "none"
         /\ \A t \in Threads : pc[t] \in {"complete", "callback"} => cur[t] # c

\* The openers that have interrupted the event handler and not taken that back,
\* and those during whose change of the fds nobody may start to handle events.
Waking == {o \in Openers : pc[o] \in {"lock_events", "read"}}

Modifying == {o \in Openers : pc[o] \in {"lock_events", "read", "do_close", "remove"}}

CountInv ==
  /\ IsFiniteSet(Modifying)
  /\ pipe = Cardinality(Waking) /\ modify = Cardinality(Modifying)

\* Whose fd is in the set.
FdsInv ==
  \A o \in Openers :
    /\ pc[o] = "open" => job[o] = "open"
    /\ pc[o] \in {"do_close", "remove"} => job[o] = "close"
    /\ o \in fds <=>
         \/ /\ job[o] = "open"
            /\ pc[o] \in {"modify", "lock_events", "read", "unlock", "broadcast"}
         \/ /\ job[o] = "close"
            /\ pc[o] \in {"modify", "lock_events", "read", "do_close", "remove"}

\* What the event handler polls is the set of fds, without those being opened.
PolledInv ==
  \A c \in Callers :
    pc[c] = "poll" =>
      /\ polled[c] \subseteq fds
      /\ \A o \in fds \ polled[c] : job[o] = "open" /\ pc[o] \in {"modify", "lock_events"}

TypeInv == PlacesInv /\ TransfersInv /\ ThreadsInv

IInv ==
  /\ TypeInv /\ ListInv /\ LockInv /\ LifeInv /\ AtInv /\ TimedOutInv /\ ErrorsInv
  /\ FreedInv /\ CountInv /\ FdsInv /\ PolledInv
-----------------------------------------------------------------------------
\* A set of numbers that is not empty has a least one, which Min returns.
LEMMA MinIsLeast ==
  ASSUME NEW T \in SUBSET Nat, T # {}
  PROVE  Min(T) \in T
<1> DEFINE R == OpToRel(<, Nat)
<1>1. IsWellFoundedOn(R, Nat)
  BY NatLessThanWellFounded
<1>2. \A x, y \in Nat : x < y => <<x, y>> \in R
  BY DEF OpToRel
<1> HIDE DEF R
<1>3. PICK x \in T : \A y \in T : ~(<<y, x>> \in R)
  BY <1>1, WFMin
<1>4. ASSUME NEW y \in T PROVE x <= y
  <2>1. ~(y < x)
    BY <1>2, <1>3
  <2> QED
    BY <2>1
<1> QED
  BY <1>3, <1>4 DEF Min

\* A transfer that is put into the list is in it once, and all others stay.
LEMMA Inserted ==
  ASSUME NEW s \in Seq(Callers), IsInjective(s), NEW n \in 1 .. Len(s) + 1,
         NEW c \in Callers, ~Listed(c, s)
  PROVE  /\ InsertAt(s, n, c) \in Seq(Callers) /\ IsInjective(InsertAt(s, n, c))
         /\ \A d : Listed(d, InsertAt(s, n, c)) <=> Listed(d, s) \/ d = c
<1> DEFINE t == InsertAt(s, n, c)
           a == SubSeq(s, 1, n - 1)
           b == SubSeq(s, n, Len(s))
<1>0. Len(s) \in Nat /\ DOMAIN s = 1 .. Len(s) /\ \A i \in 1 .. Len(s) : s[i] \in Callers
  BY LenProperties, ElementOfSeq
<1>1. /\ a \in Seq(Callers) /\ Len(a) = n - 1
      /\ \A i \in 1 .. n - 1 : a[i] = s[i]
  <2>1. \A i \in 1 .. n - 1 : s[i] \in Callers
    BY <1>0
  <2> QED
    BY <2>1, <1>0, SubSeqProperties, Z3
<1>2. /\ b \in Seq(Callers) /\ Len(b) = Len(s) - n + 1
      /\ \A i \in 1 .. Len(s) - n + 1 : b[i] = s[n + i - 1]
  <2>1. \A i \in n .. Len(s) : s[i] \in Callers
    BY <1>0
  <2> QED
    BY <2>1, <1>0, SubSeqProperties, Z3
<1>3. <<c>> \in Seq(Callers) /\ Len(<<c>>) = 1 /\ <<c>>[1] = c
  OBVIOUS
<1> HIDE DEF a, b
<1> DEFINE e == <<c>>
<1>4. e \in Seq(Callers) /\ Len(e) = 1 /\ e[1] = c
  BY <1>3
<1> HIDE DEF e
<1>5. /\ a \o e \in Seq(Callers) /\ Len(a \o e) = n
      /\ \A i \in 1 .. n : (a \o e)[i] = IF i <= n - 1 THEN a[i] ELSE e[i - (n - 1)]
  <2>1. /\ a \o e \in Seq(Callers) /\ Len(a \o e) = Len(a) + Len(e)
        /\ \A i \in 1 .. Len(a) + Len(e) :
             (a \o e)[i] = IF i <= Len(a) THEN a[i] ELSE e[i - Len(a)]
    BY <1>1, <1>4, ConcatProperties
  <2>2. Len(a) + Len(e) = n
    BY <1>0, <1>1, <1>4
  <2> QED
    BY <1>1, <2>1, <2>2
<1> DEFINE ae == a \o e
<1>6. ae \in Seq(Callers) /\ Len(ae) = n
      /\ \A i \in 1 .. n : ae[i] = IF i < n THEN s[i] ELSE c
  BY <1>0, <1>1, <1>4, <1>5
<1> HIDE DEF ae
<1>7. /\ ae \o b \in Seq(Callers) /\ Len(ae \o b) = Len(s) + 1
      /\ \A i \in 1 .. Len(s) + 1 : (ae \o b)[i] = IF i <= n THEN ae[i] ELSE b[i - n]
  <2>1. /\ ae \o b \in Seq(Callers) /\ Len(ae \o b) = Len(ae) + Len(b)
        /\ \A i \in 1 .. Len(ae) + Len(b) :
             (ae \o b)[i] = IF i <= Len(ae) THEN ae[i] ELSE b[i - Len(ae)]
    BY <1>2, <1>6, ConcatProperties
  <2>2. Len(ae) + Len(b) = Len(s) + 1
    BY <1>0, <1>2, <1>6
  <2> QED
    BY <1>6, <2>1, <2>2
<1>8. t = ae \o b
  BY DEF t, ae, a, b, e, InsertAt
<1> HIDE DEF t
<1>9. /\ t \in Seq(Callers) /\ Len(t) = Len(s) + 1
      /\ \A i \in 1 .. Len(s) + 1 : t[i] = IF i < n THEN s[i] ELSE IF i = n THEN c ELSE s[i - 1]
  BY <1>0, <1>2, <1>6, <1>7, <1>8
<1>10. DOMAIN t = 1 .. Len(s) + 1
  BY <1>9, LenProperties
<1>11. IsInjective(t)
  <2> SUFFICES ASSUME NEW i \in DOMAIN t, NEW j \in DOMAIN t, t[i] = t[j] PROVE i = j
    BY DEF IsInjective
  <2>1. \A k, l \in 1 .. Len(s) : s[k] = s[l] => k = l
    BY <1>0 DEF IsInjective
  <2>2. i \in 1 .. Len(s) + 1 /\ j \in 1 .. Len(s) + 1
    BY <1>10
  <2> DEFINE at(k) == IF k < n THEN k ELSE k - 1
  <2>3. \A k \in 1 .. Len(s) + 1 : k # n => at(k) \in 1 .. Len(s)
    BY <1>0
  <2>4. \A k \in 1 .. Len(s) + 1 : k # n => t[k] = s[at(k)]
    BY <1>0, <1>9
  <2>5. \A k, l \in 1 .. Len(s) + 1 : k # n /\ l # n /\ at(k) = at(l) => k = l
    BY <1>0
  <2>6. t[n] = c
    BY <1>0, <1>9
  <2> HIDE DEF at
  <2>7. \A k \in 1 .. Len(s) + 1 : k # n => t[k] # c
    BY <2>3, <2>4 DEF Listed
  <2>8. CASE i = n \/ j = n
    BY <2>2, <2>6, <2>7, <2>8
  <2>9. CASE i # n /\ j # n
    BY <2>1, <2>2, <2>3, <2>4, <2>5, <2>9
  <2> QED
    BY <2>8, <2>9
<1>12. ASSUME NEW d PROVE Listed(d, t) <=> Listed(d, s) \/ d = c
  <2>1. ASSUME Listed(d, t) PROVE Listed(d, s) \/ d = c
    BY <2>1, <1>0, <1>9 DEF Listed
  <2>2. ASSUME d = c PROVE Listed(d, t)
    BY <2>2, <1>0, <1>9 DEF Listed
  <2>3. ASSUME Listed(d, s) PROVE Listed(d, t)
    <3>1. PICK k \in 1 .. Len(s) : s[k] = d
      BY <2>3 DEF Listed
    <3>2. CASE k < n
      <4>1. k \in 1 .. Len(t) /\ t[k] = d
        BY <1>0, <1>9, <3>1, <3>2
      <4> QED BY <4>1 DEF Listed
    <3>3. CASE k >= n
      <4>1. k + 1 \in 1 .. Len(t) /\ t[k + 1] = d
        BY <1>0, <1>9, <3>1, <3>3
      <4> QED BY <4>1 DEF Listed
    <3> QED BY <3>2, <3>3, <1>0
  <2> QED BY <2>1, <2>2, <2>3
<1> QED
  BY <1>9, <1>11, <1>12 DEF t

\* A transfer that is taken off the list is gone, and all others stay.
LEMMA Removed ==
  ASSUME NEW s \in Seq(Callers), IsInjective(s), NEW n \in 1 .. Len(s)
  PROVE  /\ RemoveAt(s, n) \in Seq(Callers) /\ IsInjective(RemoveAt(s, n))
         /\ \A d : Listed(d, RemoveAt(s, n)) <=> Listed(d, s) /\ d # s[n]
<1> DEFINE t == RemoveAt(s, n)
           a == SubSeq(s, 1, n - 1)
           b == SubSeq(s, n + 1, Len(s))
<1>0. Len(s) \in Nat /\ DOMAIN s = 1 .. Len(s) /\ \A i \in 1 .. Len(s) : s[i] \in Callers
  BY LenProperties, ElementOfSeq
<1>1. /\ a \in Seq(Callers) /\ Len(a) = n - 1
      /\ \A i \in 1 .. n - 1 : a[i] = s[i]
  <2>1. \A i \in 1 .. n - 1 : s[i] \in Callers
    BY <1>0
  <2> QED
    BY <2>1, <1>0, SubSeqProperties, Z3
<1>2. /\ b \in Seq(Callers) /\ Len(b) = Len(s) - n
      /\ \A i \in 1 .. Len(s) - n : b[i] = s[n + i]
  <2>1. \A i \in n + 1 .. Len(s) : s[i] \in Callers
    BY <1>0
  <2>2. /\ b \in Seq(Callers)
        /\ Len(b) = IF n + 1 <= Len(s) THEN Len(s) - (n + 1) + 1 ELSE 0
        /\ \A i \in 1 .. Len(s) - (n + 1) + 1 : b[i] = s[(n + 1) + i - 1]
    BY <2>1, <1>0, SubSeqProperties, Z3
  <2>3. ASSUME NEW i \in 1 .. Len(s) - n PROVE b[i] = s[n + i]
    <3>1. i \in 1 .. Len(s) - (n + 1) + 1 /\ (n + 1) + i - 1 = n + i
      BY <1>0
    <3> QED
      BY <2>2, <3>1, Zenon
  <2>4. Len(b) = Len(s) - n
    <3>1. n + 1 <= Len(s) => Len(s) - (n + 1) + 1 = Len(s) - n
      BY <1>0
    <3>2. ASSUME ~(n + 1 <= Len(s)) PROVE 0 = Len(s) - n
      <4>1. n = Len(s)
        <5>1. \A l \in Nat : \A m \in 1 .. l : ~(m + 1 <= l) => m = l
          OBVIOUS
        <5> QED
          BY <1>0, <3>2, <5>1, Zenon
      <4>2. Len(s) - Len(s) = 0
        BY <1>0
      <4> QED
        BY <4>1, <4>2, Zenon
    <3> QED
      BY <2>2, <3>1, <3>2, Zenon
  <2> QED
    BY <2>2, <2>3, <2>4
<1>3. t = a \o b
  BY DEF t, a, b, RemoveAt
<1> HIDE DEF a, b, t
<1>4. /\ t \in Seq(Callers) /\ Len(t) = Len(s) - 1
      /\ \A i \in 1 .. Len(s) - 1 : t[i] = IF i < n THEN s[i] ELSE s[i + 1]
  <2>1. /\ a \o b \in Seq(Callers) /\ Len(a \o b) = Len(s) - 1
        /\ \A i \in 1 .. Len(s) - 1 : (a \o b)[i] = IF i <= n - 1 THEN a[i] ELSE b[i - (n - 1)]
    <3>1. /\ a \o b \in Seq(Callers) /\ Len(a \o b) = Len(a) + Len(b)
          /\ \A i \in 1 .. Len(a) + Len(b) :
               (a \o b)[i] = IF i <= Len(a) THEN a[i] ELSE b[i - Len(a)]
      BY <1>1, <1>2, ConcatProperties
    <3>2. Len(a) + Len(b) = Len(s) - 1
      BY <1>0, <1>1, <1>2
    <3> QED
      BY <1>1, <3>1, <3>2
  <2> QED
    BY <1>0, <1>1, <1>2, <1>3, <2>1
<1>5. DOMAIN t = 1 .. Len(s) - 1
  BY <1>4, LenProperties
<1>6. \A k, l \in 1 .. Len(s) : s[k] = s[l] => k = l
  BY <1>0 DEF IsInjective
<1>7. IsInjective(t)
  <2> SUFFICES ASSUME NEW i \in DOMAIN t, NEW j \in DOMAIN t, t[i] = t[j] PROVE i = j
    BY DEF IsInjective
  <2>1. /\ t[i] = IF i < n THEN s[i] ELSE s[i + 1]
        /\ t[j] = IF j < n THEN s[j] ELSE s[j + 1]
    BY <1>4, <1>5
  <2>2. i \in 1 .. Len(s) - 1 /\ j \in 1 .. Len(s) - 1
    BY <1>5
  <2> DEFINE at(k) == IF k < n THEN k ELSE k + 1
  <2>3. at(i) \in 1 .. Len(s) /\ at(j) \in 1 .. Len(s)
    BY <1>0, <2>2
  <2>4. s[at(i)] = s[at(j)]
    BY <2>1
  <2>5. at(i) = at(j)
    BY <1>6, <2>3, <2>4
  <2> QED
    BY <2>2, <2>5
<1>8. ASSUME NEW d PROVE Listed(d, t) <=> Listed(d, s) /\ d # s[n]
  <2>1. ASSUME Listed(d, t) PROVE Listed(d, s) /\ d # s[n]
    <3>1. PICK i \in 1 .. Len(s) - 1 : t[i] = d
      BY <2>1, <1>4 DEF Listed
    <3>2. d = IF i < n THEN s[i] ELSE s[i + 1]
      BY <1>4, <3>1
    <3> QED
      BY <1>0, <1>6, <3>2 DEF Listed
  <2>2. ASSUME Listed(d, s), d # s[n] PROVE Listed(d, t)
    <3>1. PICK k \in 1 .. Len(s) : s[k] = d
      BY <2>2 DEF Listed
    <3>2. CASE k < n
      <4>1. k \in 1 .. Len(t) /\ t[k] = d
        BY <1>0, <1>4, <3>1, <3>2
      <4> QED BY <4>1 DEF Listed
    <3>3. CASE k > n
      <4> DEFINE l == k - 1
      <4>1. Len(s) \in Nat /\ Len(t) = Len(s) - 1 /\ n \in Nat /\ k \in Nat
        BY <1>0, <1>4
      <4>2. l \in 1 .. Len(s) - 1 /\ l \in 1 .. Len(t) /\ ~(l < n) /\ l + 1 = k
        BY <3>3, <4>1
      <4> HIDE DEF l
      <4>3. t[l] = s[l + 1]
        BY <1>4, <4>2
      <4> QED BY <3>1, <4>2, <4>3 DEF Listed
    <3> QED BY <3>1, <3>2, <3>3, <2>2, <1>0
  <2> QED BY <2>1, <2>2
<1> QED
  BY <1>4, <1>7, <1>8 DEF t

-----------------------------------------------------------------------------
\* The initial state satisfies the invariant.
LEMMA InitHolds == Init => IInv
<1> SUFFICES ASSUME Init PROVE IInv
  OBVIOUS
<1>1. PlacesInv
  <2>1. pc = [t \in Threads |-> IF t \in Callers THEN "submit"
                               ELSE IF t \in setup.opens THEN "open" ELSE "done"]
    BY DEF Init
  <2>2. /\ pc \in [Threads -> {"submit", "open", "done"}]
        /\ \A c \in Callers : pc[c] = "submit"
        /\ \A o \in Openers : pc[o] \in {"open", "done"}
    BY <2>1, UsbEventsAssumption DEF Threads
  <2> QED
    BY <2>2 DEF PlacesInv, CallerPlaces, OpenerPlaces
<1>2. TransfersInv
  <2>1. setup \in Setups /\ setup.errors \in Nat
    BY UsbEventsAssumption DEF Init, Setup
  <2>2. errors \in 0 .. setup.errors
    BY <2>1 DEF Init
  <2>3. /\ tlock \in [Callers -> Callers \cup {None}]
        /\ deadline \in [Callers -> Nat]
        /\ flags \in [Callers -> SUBSET {"TIMED_OUT", "CANCELLING"}]
        /\ urb \in [Callers -> {"none", "queued", "ready", "killed"}]
        /\ status \in [Callers -> Statuses]
    BY DEF Init, Statuses
  <2> QED
    BY <2>1, <2>2, <2>3 DEF Init, TransfersInv
<1>3. ThreadsInv
  BY DEF Init, ThreadsInv, Threads, Statuses
<1>4. ListInv
  BY DEF Init, ListInv, IsInjective
<1>5. LockInv
  BY DEF Init, LockInv
<1>6. \A d : ~Listed(d, flying)
  BY DEF Init, Listed
<1>7. LifeInv
  BY <1>6, UsbEventsAssumption DEF Init, LifeInv, Threads
<1>8. AtInv
  BY DEF Init, AtInv
<1>9. TimedOutInv
  BY DEF Init, TimedOutInv
<1>10. ErrorsInv
  BY DEF Init, ErrorsInv, Failing, Threads
<1>11. FreedInv
  BY DEF Init, FreedInv
<1>12. Waking = {} /\ Modifying = {}
  BY UsbEventsAssumption DEF Init, Waking, Modifying, Threads
<1>13. CountInv
  BY <1>12, FS_EmptySet DEF Init, CountInv
<1>14. FdsInv
  BY UsbEventsAssumption DEF Init, FdsInv, Threads
<1>15. PolledInv
  BY DEF Init, PolledInv, Threads
<1> QED
  BY <1>1, <1>2, <1>3, <1>4, <1>5, <1>7, <1>8, <1>9, <1>10, <1>11, <1>13, <1>14, <1>15
  DEF IInv, TypeInv

-----------------------------------------------------------------------------
\* What a step may do to the threads that do not take it: nothing but wake them.
Stays(u) == pc'[u] = pc[u] \/ (pc[u] = "wait" /\ pc'[u] = "woken")

\* A thread goes on ...
LEMMA Goes ==
  ASSUME PlacesInv, NEW t \in Threads, NEW p \in CallerPlaces \cup OpenerPlaces,
         t \in Callers => p \in CallerPlaces, t \in Openers => p \in OpenerPlaces,
         Go(t, p)
  PROVE  PlacesInv' /\ pc'[t] = p /\ \A u \in Threads \ {t} : pc'[u] = pc[u]
BY DEF Go, PlacesInv, Threads

\* ... and wakes the others.
LEMMA Wakes ==
  ASSUME PlacesInv, NEW t \in Threads, NEW p \in CallerPlaces \cup OpenerPlaces,
         p # "wait", t \in Callers => p \in CallerPlaces, t \in Openers => p \in OpenerPlaces,
         pc' = WakeAll([pc EXCEPT ![t] = p])
  PROVE  /\ PlacesInv' /\ pc'[t] = p
         /\ \A u \in Threads \ {t} : Stays(u)
         /\ \A o \in Openers \ {t} : pc'[o] = pc[o]
<1>1. \A u \in Threads : pc'[u] = IF [pc EXCEPT ![t] = p][u] = "wait" THEN "woken"
                                  ELSE [pc EXCEPT ![t] = p][u]
  BY DEF WakeAll
<1>2. pc'[t] = p
  BY <1>1 DEF PlacesInv
<1>3. \A u \in Threads \ {t} : pc'[u] = IF pc[u] = "wait" THEN "woken" ELSE pc[u]
  BY <1>1 DEF PlacesInv
<1>4. \A o \in Openers : pc[o] # "wait"
  BY DEF PlacesInv, OpenerPlaces
<1>5. \A u \in Threads : pc'[u] \in CallerPlaces \cup OpenerPlaces
  BY <1>2, <1>3 DEF PlacesInv, CallerPlaces
<1>6. pc' \in [Threads -> CallerPlaces \cup OpenerPlaces]
  <2>1. pc' = [u \in Threads |-> pc'[u]]
    BY DEF WakeAll
  <2> QED
    BY <1>5, <2>1
<1>7. ASSUME NEW c \in Callers PROVE pc'[c] \in CallerPlaces
  BY <1>2, <1>3 DEF PlacesInv, CallerPlaces, Threads
<1>8. ASSUME NEW o \in Openers PROVE pc'[o] \in OpenerPlaces
  BY <1>2, <1>3, <1>4 DEF PlacesInv, Threads
<1> QED
  BY <1>2, <1>3, <1>4, <1>6, <1>7, <1>8 DEF PlacesInv, Stays, Threads

-----------------------------------------------------------------------------
\* What a step of a caller leaves alone.
LEMMA CallerMoves ==
  ASSUME PlacesInv, NEW c \in Callers, do_sync_bulk_transfer(c)
  PROVE  /\ PlacesInv'
         /\ \A u \in Threads \ {c} : Stays(u)
         /\ \A o \in Openers : pc'[o] = pc[o]
         /\ UNCHANGED <<modify, pipe, fds, job>>
<1> DEFINE goes  == \E p \in CallerPlaces : Go(c, p)
           wakes == \E p \in CallerPlaces \ {"wait"} : pc' = WakeAll([pc EXCEPT ![c] = p])
           quiet == UNCHANGED <<modify, pipe, fds, job>>
<1>0. c \in Threads /\ c \notin Openers /\ Openers \subseteq Threads
  BY UsbEventsAssumption DEF Threads
<1>1. goes \/ wakes => /\ PlacesInv'
                       /\ \A u \in Threads \ {c} : Stays(u)
                       /\ \A o \in Openers : pc'[o] = pc[o]
  <2>1. ASSUME goes PROVE /\ PlacesInv'
                          /\ \A u \in Threads \ {c} : pc'[u] = pc[u]
    <3>1. PICK p \in CallerPlaces : Go(c, p)
      BY <2>1
    <3> QED
      BY <3>1, <1>0, Goes
  <2>2. ASSUME wakes PROVE /\ PlacesInv'
                           /\ \A u \in Threads \ {c} : Stays(u)
                           /\ \A o \in Openers : pc'[o] = pc[o]
    <3>1. PICK p \in CallerPlaces \ {"wait"} : pc' = WakeAll([pc EXCEPT ![c] = p])
      BY <2>2
    <3>2. /\ PlacesInv'
          /\ \A u \in Threads \ {c} : Stays(u)
          /\ \A o \in Openers \ {c} : pc'[o] = pc[o]
      BY <3>1, <1>0, Wakes
    <3> QED
      BY <3>2, <1>0
  <2> QED
    BY <2>1, <2>2, <1>0 DEF Stays
<1> SUFFICES (goes \/ wakes) /\ quiet
  BY <1>1
<1> USE DEF handling, local, transfers, CallerPlaces
<1>2. CASE libusb_submit_transfer(c)
  BY <1>2 DEF libusb_submit_transfer, Add, Submit, Arm, Del
<1>3. CASE Loop(c) \/ get_next_timeout(c)
  BY <1>3 DEF Loop, get_next_timeout, FindNext, ReadNext
<1>4. CASE libusb_try_lock_events(c)
  BY <1>4 DEF libusb_try_lock_events
<1>5. CASE libusb_wait_for_event(c)
  BY <1>5 DEF libusb_wait_for_event, Check, Woken, WaitTimeout
<1>6. CASE Poll(c) \/ PollFails(c) \/ Disarm(c) \/ Reap(c)
  BY <1>6 DEF Poll, PollFails, Disarm, Reap
<1>7. CASE Complete(c) \/ Callback(c)
  BY <1>7 DEF Complete, Callback
<1>8. CASE Notify(c)
  <2>1. "reap" \in CallerPlaces \ {"wait"}
    OBVIOUS
  <2> QED
    BY <1>8, <2>1 DEF Notify
<1>9. CASE handle_timeouts(c)
  BY <1>9 DEF handle_timeouts, LockFlying, handle_timeouts_locked, Cancel
<1>10. CASE UnlockEvents(c)
  BY <1>10 DEF UnlockEvents
<1>11. CASE Broadcast(c)
  <2>1. AfterUnlock(c) \in CallerPlaces \ {"wait"}
    BY <1>0 DEF AfterUnlock
  <2> QED
    BY <1>0, <1>11, <2>1 DEF Broadcast
<1>12. CASE Failed(c)
  BY <1>12 DEF Failed
<1> QED
  BY <1>2, <1>3, <1>4, <1>5, <1>6, <1>7, <1>8, <1>9, <1>10, <1>11, <1>12
  DEF do_sync_bulk_transfer, handle_events, usbi_handle_transfer_completion,
      libusb_unlock_events

\* What a step of an opener leaves alone.
LEMMA OpenerMoves ==
  ASSUME PlacesInv, ThreadsInv, NEW o \in Openers, libusb_open(o)
  PROVE  /\ PlacesInv'
         /\ \A u \in Threads \ {o} : Stays(u)
         /\ \A p \in Openers \ {o} : pc'[p] = pc[p]
         /\ UNCHANGED <<now, transfers, wake, cur, verdict, quit, errors>>
         /\ \A c \in Callers : polled'[c] = polled[c] /\ found'[c] = found[c]
<1> DEFINE goes  == \E p \in OpenerPlaces : Go(o, p)
           wakes == \E p \in OpenerPlaces : pc' = WakeAll([pc EXCEPT ![o] = p])
           quiet == UNCHANGED <<now, transfers, wake, cur, verdict, quit, errors>>
           other == \A c \in Callers : polled'[c] = polled[c] /\ found'[c] = found[c]
<1>0. o \in Threads /\ o \notin Callers /\ Openers \subseteq Threads /\ Callers \subseteq Threads
  BY UsbEventsAssumption DEF Threads
<1>1. goes \/ wakes => /\ PlacesInv'
                       /\ \A u \in Threads \ {o} : Stays(u)
                       /\ \A p \in Openers \ {o} : pc'[p] = pc[p]
  <2>1. ASSUME goes PROVE /\ PlacesInv'
                          /\ \A u \in Threads \ {o} : pc'[u] = pc[u]
    <3>1. PICK p \in OpenerPlaces : Go(o, p)
      BY <2>1
    <3> QED
      BY <3>1, <1>0, Goes
  <2>2. ASSUME wakes PROVE /\ PlacesInv'
                           /\ \A u \in Threads \ {o} : Stays(u)
                           /\ \A p \in Openers \ {o} : pc'[p] = pc[p]
    <3>1. PICK p \in OpenerPlaces : pc' = WakeAll([pc EXCEPT ![o] = p])
      BY <2>2
    <3>2. p # "wait"
      BY DEF OpenerPlaces
    <3> QED
      BY <3>1, <3>2, <1>0, Wakes
  <2> QED
    BY <2>1, <2>2, <1>0 DEF Stays
<1> SUFFICES (goes \/ wakes) /\ quiet /\ other
  BY <1>1
<1>2. UNCHANGED <<polled, found>> => other
  OBVIOUS
<1> USE DEF handling, local, transfers, OpenerPlaces
<1>3. CASE Open(o) \/ Modify(o) \/ libusb_lock_events(o) \/ ReadPipe(o) \/ Detach(o)
  BY <1>2, <1>3 DEF Open, Modify, libusb_lock_events, ReadPipe, Detach
<1>4. CASE DoClose(o)
  <2>1. "remove" \in OpenerPlaces
    OBVIOUS
  <2> QED
    BY <1>2, <1>4, <2>1 DEF DoClose
<1>5. CASE UnlockEvents(o)
  <2>1. other
    BY <1>0, <1>5 DEF UnlockEvents, ThreadsInv
  <2> QED
    BY <1>5, <2>1 DEF UnlockEvents
<1>6. CASE Broadcast(o)
  <2>1. AfterUnlock(o) \in OpenerPlaces
    BY <1>0 DEF AfterUnlock
  <2>2. other
    BY <1>0, <1>6 DEF Broadcast, ThreadsInv
  <2> QED
    BY <1>0, <1>6, <2>1, <2>2 DEF Broadcast
<1> QED
  BY <1>3, <1>4, <1>5, <1>6 DEF libusb_open, libusb_unlock_events

-----------------------------------------------------------------------------
\* The first of a set of places in the list is a transfer in it.
LEMMA FirstOf ==
  ASSUME ListInv, NEW T \in SUBSET (1 .. Len(flying)), T # {}
  PROVE  /\ Min(T) \in T /\ flying[Min(T)] \in Callers
         /\ Listed(flying[Min(T)], flying)
<1>1. Len(flying) \in Nat /\ \A n \in 1 .. Len(flying) : flying[n] \in Callers
  BY LenProperties, ElementOfSeq DEF ListInv
<1>2. T \in SUBSET Nat
  BY <1>1
<1>3. Min(T) \in T
  BY <1>2, MinIsLeast
<1> QED
  BY <1>1, <1>3 DEF Listed

\* A timeout that somebody waits for is that of a transfer in the list.
LEMMA NextTimerIsNat ==
  ASSUME ListInv, TransfersInv
  PROVE  NextTimer \in Nat
<1>1. Untimed \in SUBSET (1 .. Len(flying))
  BY DEF Untimed
<1>2. CASE Untimed = {}
  BY <1>2 DEF NextTimer
<1>3. CASE Untimed # {}
  BY <1>1, <1>3, FirstOf DEF NextTimer, TransfersInv
<1> QED
  BY <1>2, <1>3

\* What handle_timeouts_locked takes is in the list, and its time is over.
LEMMA ScanFinds ==
  ASSUME ListInv, Scan # {}
  PROVE  /\ flying[Min(Scan)] \in Callers /\ Listed(flying[Min(Scan)], flying)
         /\ Expired(flying[Min(Scan)])
<1>1. Scan \in SUBSET (1 .. Len(flying))
  BY DEF Scan, Untimed
<1>2. Min(Scan) \in Scan
  BY <1>1, FirstOf
<1> QED
  BY <1>1, <1>2, FirstOf DEF Scan

\* A step keeps the list a list without repetition, and what joins and leaves it.
LEMMA ListMoves ==
  ASSUME IInv, NEW c \in Callers
  PROVE  /\ Add(c) => ListInv' /\ \A d : Listed(d, flying') <=> Listed(d, flying) \/ d = c
         /\ Del(c) => ListInv' /\ \A d : Listed(d, flying') <=> Listed(d, flying) /\ d # c
         /\ Complete(c) => /\ ListInv'
                           /\ \A d : Listed(d, flying') <=> Listed(d, flying) /\ d # cur[c]
<1>1. Len(flying) \in Nat /\ flying \in Seq(Callers) /\ IsInjective(flying)
  BY LenProperties DEF IInv, ListInv
<1>2. ASSUME Add(c)
      PROVE  ListInv' /\ \A d : Listed(d, flying') <=> Listed(d, flying) \/ d = c
  <2>1. ~Listed(c, flying)
    BY <1>2 DEF IInv, LifeInv, Add
  <2>2. Place(c) \in 1 .. Len(flying) + 1
    <3> DEFINE later == {n \in 1 .. Len(flying) : deadline'[c] # 0 /\ Later(flying[n], c)}
    <3>1. later \in SUBSET Nat /\ later \in SUBSET (1 .. Len(flying))
      BY <1>1
    <3>2. CASE later = {}
      BY <1>1, <3>2 DEF Place
    <3>3. CASE later # {}
      <4> HIDE DEF later
      <4>1. Min(later) \in later
        BY <3>1, <3>3, MinIsLeast
      <4>2. Place(c) = Min(later)
        BY <3>3 DEF Place, later
      <4>3. Min(later) \in 1 .. Len(flying)
        BY <3>1, <4>1
      <4>4. 1 .. Len(flying) \subseteq 1 .. Len(flying) + 1
        BY <1>1
      <4> QED
        BY <4>2, <4>3, <4>4, Zenon
    <3> QED
      BY <3>2, <3>3
  <2>3. flying' = InsertAt(flying, Place(c), c)
    BY <1>2 DEF Add
  <2> DEFINE n == Place(c)
  <2> HIDE DEF n
  <2>4. n \in 1 .. Len(flying) + 1 /\ flying' = InsertAt(flying, n, c)
    BY <2>2, <2>3 DEF n
  <2> QED
    BY <1>1, <2>1, <2>4, Inserted DEF ListInv
<1>3. ASSUME NEW d, Unlist(d)
      PROVE  ListInv' /\ \A e : Listed(e, flying') <=> Listed(e, flying) /\ e # d
  <2>1. PICK n \in 1 .. Len(flying) : flying[n] = d /\ flying' = RemoveAt(flying, n)
    BY <1>3 DEF Unlist
  <2> QED
    BY <1>1, <2>1, Removed DEF ListInv
<1>4. (Del(c) => Unlist(c)) /\ (Complete(c) => Unlist(cur[c]))
  BY DEF Del, Complete
<1> QED
  BY <1>2, <1>3, <1>4

-----------------------------------------------------------------------------
\* A step of a caller keeps the types.
LEMMA CallerTypes ==
  ASSUME IInv, NEW c \in Callers, do_sync_bulk_transfer(c), UNCHANGED setup
  PROVE  TransfersInv' /\ ThreadsInv'
<1>0. c \in Threads /\ Threads = Callers \cup Openers
  BY DEF Threads
<1>1. TransfersInv /\ ThreadsInv /\ PlacesInv /\ ListInv
  BY DEF IInv, TypeInv
<1>2. setup.errors \in Nat /\ Timeout[c] \in Nat
  BY <1>1, UsbEventsAssumption DEF TransfersInv, Setup, Timeout
<1> USE DEF handling, local, transfers, TransfersInv, ThreadsInv, Statuses
<1>3. CASE Add(c)
  BY <1>0, <1>1, <1>2, <1>3 DEF Add
<1>4. CASE Submit(c) \/ Arm(c)
  BY <1>1, <1>4 DEF Submit, Arm
<1>5. CASE Del(c) \/ Loop(c)
  BY <1>0, <1>1, <1>5 DEF Del, Loop
<1>6. CASE FindNext(c)
  <2>1. (IF Untimed = {} THEN None ELSE flying[Min(Untimed)]) \in Callers \cup {None}
    <3>1. Untimed \in SUBSET (1 .. Len(flying))
      BY DEF Untimed
    <3> QED
      BY <1>1, <3>1, FirstOf
  <2> QED
    BY <1>0, <1>1, <1>6, <2>1 DEF FindNext
<1>7. CASE ReadNext(c)
  BY <1>0, <1>1, <1>7 DEF ReadNext
<1>8. CASE libusb_try_lock_events(c)
  <2>1. /\ events' \in {events, c} /\ active' \in {active, TRUE}
        /\ UNCHANGED <<now, transfers, fds, found, wake, cur, verdict, quit, job, errors>>
        /\ polled' = polled \/ polled' = [polled EXCEPT ![c] = fds]
    BY <1>8 DEF libusb_try_lock_events
  <2>2. TransfersInv'
    BY <1>0, <1>1, <2>1
  <2>3. polled' \in [Threads -> SUBSET Openers]
    BY <1>0, <1>1, <2>1
  <2> QED
    BY <1>1, <2>1, <2>2, <2>3
<1>9. CASE libusb_wait_for_event(c)
  BY <1>1, <1>9 DEF libusb_wait_for_event, Check, Woken, WaitTimeout
<1>10. CASE Poll(c)
  <2>1. Readable \subseteq {"ctrl", "timer", "dev"}
    BY DEF Readable
  <2>2. PICK f \in SUBSET {"ctrl", "timer", "dev"} : found' = [found EXCEPT ![c] = f]
    BY <1>10, <2>1 DEF Poll
  <2>3. ThreadsInv'
    BY <1>0, <1>1, <1>10, <2>2 DEF Poll
  <2>4. TransfersInv'
    BY <1>1, <1>10 DEF Poll
  <2> QED
    BY <2>3, <2>4
<1>11. CASE PollFails(c)
  BY <1>0, <1>1, <1>2, <1>11 DEF PollFails
<1>12. CASE Disarm(c) \/ LockFlying(c)
  BY <1>0, <1>1, <1>12 DEF Disarm, LockFlying
<1>13. CASE handle_timeouts_locked(c)
  <2>1. CASE Scan # {}
    <3> DEFINE d == flying[Min(Scan)]
    <3>1. d \in Callers
      BY <1>1, <2>1, ScanFinds
    <3>2. /\ flags' = [flags EXCEPT ![d] = @ \cup {"TIMED_OUT"}]
          /\ cur' = [cur EXCEPT ![c] = d]
          /\ UNCHANGED <<fly, timer>>
      BY <1>13, <2>1 DEF handle_timeouts_locked
    <3> HIDE DEF d
    <3>3. flags' \in [Callers -> SUBSET {"TIMED_OUT", "CANCELLING"}]
      BY <1>1, <3>1, <3>2
    <3>4. cur' \in [Threads -> Callers \cup {None}]
      BY <1>0, <1>1, <3>1, <3>2
    <3> QED
      BY <1>1, <1>13, <3>2, <3>3, <3>4 DEF handle_timeouts_locked
  <2>2. CASE Scan = {}
    BY <1>0, <1>1, <1>13, <2>2, NextTimerIsNat DEF handle_timeouts_locked
  <2> QED
    BY <2>1, <2>2
<1>14. CASE Cancel(c)
  BY <1>0, <1>1, <1>14 DEF Cancel, Killed
<1>15. CASE Reap(c)
  BY <1>0, <1>1, <1>15 DEF Reap, Verdict
<1>16. CASE Complete(c)
  <2>1. ListInv'
    BY <1>16, ListMoves
  <2>2. deadline' \in [Callers -> Nat]
    BY <1>1, <1>16 DEF Complete
  <2>3. Untimed' \subseteq 1 .. Len(flying')
    BY DEF Untimed
  <2>4. Untimed' # {} => flying'[Min(Untimed')] \in Callers
    <3>1. Len(flying') \in Nat /\ \A n \in 1 .. Len(flying') : flying'[n] \in Callers
      BY <2>1, LenProperties, ElementOfSeq DEF ListInv
    <3>2. Untimed' \in SUBSET Nat
      BY <2>3, <3>1
    <3>3. Untimed' # {} => Min(Untimed') \in Untimed'
      BY <3>2, MinIsLeast
    <3> QED
      BY <2>3, <3>1, <3>3
  <2>5. NextTimer' \in Nat
    <3>1. CASE Untimed' = {}
      BY <3>1 DEF NextTimer
    <3>2. CASE Untimed' # {}
      BY <2>2, <2>4, <3>2 DEF NextTimer
    <3> QED
      BY <3>1, <3>2
  <2> QED
    BY <1>0, <1>1, <1>16, <2>5 DEF Complete
<1>17. CASE Callback(c) \/ Notify(c)
  BY <1>0, <1>1, <1>17 DEF Callback, Notify
<1>18. CASE libusb_unlock_events(c)
  BY <1>0, <1>1, <1>18 DEF libusb_unlock_events, UnlockEvents, Broadcast
<1>19. CASE Failed(c)
  BY <1>0, <1>1, <1>19 DEF Failed, Killed
<1> QED
  BY <1>3, <1>4, <1>5, <1>6, <1>7, <1>8, <1>9, <1>10, <1>11, <1>12, <1>13, <1>14, <1>15,
     <1>16, <1>17, <1>18, <1>19
  DEF do_sync_bulk_transfer, libusb_submit_transfer, get_next_timeout, handle_events,
      handle_timeouts, usbi_handle_transfer_completion

\* A step of an opener keeps the types.
LEMMA OpenerTypes ==
  ASSUME TypeInv, NEW o \in Openers, libusb_open(o), UNCHANGED setup
  PROVE  TransfersInv' /\ ThreadsInv'
<1>0. o \in Threads /\ Threads = Callers \cup Openers
  BY DEF Threads
<1>1. TransfersInv /\ ThreadsInv /\ PlacesInv
  BY DEF TypeInv
<1> USE DEF handling, local, transfers, TransfersInv, ThreadsInv
<1>2. CASE Open(o) \/ Modify(o) \/ libusb_lock_events(o)
  BY <1>0, <1>1, <1>2 DEF Open, Modify, libusb_lock_events
<1>3. CASE ReadPipe(o) \/ DoClose(o) \/ Detach(o)
  BY <1>1, <1>3 DEF ReadPipe, DoClose, Detach
<1>4. CASE UnlockEvents(o)
  BY <1>0, <1>1, <1>4 DEF UnlockEvents
<1>5. CASE Broadcast(o)
  BY <1>0, <1>1, <1>5 DEF Broadcast
<1> QED
  BY <1>2, <1>3, <1>4, <1>5 DEF libusb_open, libusb_unlock_events

\* Time that passes, and a device that answers, leave all else alone.
LEMMA OtherMoves ==
  ASSUME TypeInv, UNCHANGED setup, Tick \/ \E c \in Callers : Answer(c)
  PROVE  /\ TypeInv'
         /\ UNCHANGED <<pc, flying, fly, tlock, deadline, flags, status, freed, timer,
                        handling, local, errors>>
         /\ now' \in {now, now + 1}
         /\ \A d \in Callers : urb'[d] = urb[d] \/ (urb[d] = "queued" /\ urb'[d] = "ready")
<1>1. TransfersInv /\ ThreadsInv /\ PlacesInv
  BY DEF TypeInv
<1>2. CASE Tick
  <2>1. /\ UNCHANGED <<pc, flying, fly, tlock, deadline, flags, urb, status, freed, timer,
                       handling, local, errors>>
        /\ now' = now + 1
    BY <1>2 DEF Tick, transfers
  <2>2. TypeInv'
    BY <1>1, <2>1 DEF TypeInv, TransfersInv, ThreadsInv, PlacesInv, local, handling
  <2> QED
    BY <2>1, <2>2
<1>3. ASSUME NEW c \in Callers, Answer(c)
      PROVE  /\ TypeInv'
             /\ UNCHANGED <<pc, now, flying, fly, tlock, deadline, flags, status, freed, timer,
                            handling, local, errors>>
             /\ \A d \in Callers : urb'[d] = urb[d] \/ (urb[d] = "queued" /\ urb'[d] = "ready")
  BY <1>1, <1>3 DEF Answer, TypeInv, TransfersInv, ThreadsInv, PlacesInv, local, handling
<1>4. (\E c \in Callers : Answer(c)) =>
        /\ TypeInv'
        /\ UNCHANGED <<pc, flying, fly, tlock, deadline, flags, status, freed, timer,
                       handling, local, errors>>
        /\ now' \in {now, now + 1}
        /\ \A d \in Callers : urb'[d] = urb[d] \/ (urb[d] = "queued" /\ urb'[d] = "ready")
  BY <1>3
<1> QED
  BY <1>2, <1>4

\* The types and the list, of every step.
LEMMA TypesKept ==
  ASSUME IInv, Next
  PROVE  TypeInv' /\ ListInv'
<1>1. TypeInv /\ ListInv /\ PlacesInv /\ ThreadsInv
  BY DEF IInv, TypeInv
<1>2. ASSUME NEW c \in Callers, do_sync_bulk_transfer(c), UNCHANGED setup
      PROVE  TypeInv' /\ ListInv'
  <2>1. TypeInv'
    BY <1>1, <1>2, CallerMoves, CallerTypes DEF TypeInv
  <2>2. Add(c) \/ Del(c) \/ Complete(c) \/ UNCHANGED flying
    BY <1>2 DEF do_sync_bulk_transfer, libusb_submit_transfer, Submit, Arm, Loop,
         get_next_timeout, FindNext, ReadNext, libusb_try_lock_events,
         libusb_wait_for_event, Check, Woken, WaitTimeout,
         handle_events, Poll, PollFails, Disarm, Reap,
         usbi_handle_transfer_completion, Callback, Notify,
         handle_timeouts, LockFlying, handle_timeouts_locked, Cancel,
         libusb_unlock_events, UnlockEvents, Broadcast, Failed, transfers
  <2>3. UNCHANGED flying => ListInv'
    BY <1>1 DEF ListInv
  <2> QED
    BY <2>1, <2>2, <2>3, ListMoves
<1>3. ASSUME NEW o \in Openers, libusb_open(o), UNCHANGED setup
      PROVE  TypeInv' /\ ListInv'
  <2>1. TypeInv'
    BY <1>1, <1>3, OpenerMoves, OpenerTypes DEF TypeInv
  <2>2. UNCHANGED flying
    BY <1>1, <1>3, OpenerMoves DEF transfers
  <2> QED
    BY <1>1, <2>1, <2>2 DEF ListInv
<1>4. ASSUME Tick \/ \E c \in Callers : Answer(c), UNCHANGED setup
      PROVE  TypeInv' /\ ListInv'
  <2>1. TypeInv' /\ UNCHANGED flying
    BY <1>1, <1>4, OtherMoves
  <2> QED
    BY <1>1, <2>1 DEF ListInv
<1> QED
  BY <1>2, <1>3, <1>4 DEF Next

\* The locks: taken only when they are free, given up only by who has them.
LEMMA LocksKept ==
  ASSUME IInv, Next
  PROVE  LockInv'
<1>1. TypeInv /\ PlacesInv /\ ThreadsInv /\ LockInv /\ None \notin Threads
  BY UsbEventsAssumption DEF IInv, TypeInv, Threads
<1>2. ASSUME NEW c \in Callers, do_sync_bulk_transfer(c)
      PROVE  LockInv'
  <2>0. c \in Threads /\ c \notin Openers
    BY UsbEventsAssumption DEF Threads
  <2>1. pc[c] \in CallerPlaces /\ pc \in [Threads -> CallerPlaces \cup OpenerPlaces]
    BY <1>1 DEF PlacesInv
  <2>2. \A u \in Threads \ {c} : Stays(u)
    BY <1>1, <1>2, CallerMoves
  <2> USE DEF LockInv, Stays, transfers, handling
  <2>3. CASE libusb_submit_transfer(c)
    <3>1. UNCHANGED <<events, fly>> /\ pc'[c] \in {"backend", "arm", "del", "loop", "done"}
      BY <2>0, <2>1, <2>3 DEF libusb_submit_transfer, Add, Submit, Arm, Del, Go
    <3> QED
      BY <1>1, <2>2, <3>1
  <2>4. CASE Loop(c) \/ get_next_timeout(c) \/ libusb_wait_for_event(c)
    <3>1. UNCHANGED <<events, fly>> /\ pc'[c] \in {"done", "try", "next", "read_next", "timeouts",
                                                   "loop", "wait"}
      BY <2>0, <2>1, <2>4 DEF Loop, get_next_timeout, FindNext, ReadNext,
           libusb_wait_for_event, Check, Woken, WaitTimeout, Go
    <3> QED
      BY <1>1, <2>2, <3>1
  <2>5. CASE libusb_try_lock_events(c)
    <3>1. /\ UNCHANGED fly /\ pc'[c] \in {"check", "unlock", "poll"}
          /\ \/ UNCHANGED events /\ pc'[c] = "check"
             \/ events = None /\ events' = c
      BY <2>0, <2>1, <2>5 DEF libusb_try_lock_events, try_lock, Go
    <3> QED
      BY <1>1, <2>0, <2>2, <3>1
  <2>6. CASE Poll(c) \/ PollFails(c) \/ Disarm(c) \/ Reap(c) \/ Complete(c) \/ Callback(c)
    <3>1. /\ UNCHANGED <<events, fly>>
          /\ pc[c] \in {"poll", "disarm", "reap", "complete", "callback"}
          /\ pc'[c] \in {"unlock", "disarm", "reap", "timeouts", "complete", "callback", "notify"}
      BY <2>0, <2>1, <2>6 DEF Poll, PollFails, Disarm, Reap, Complete, Callback, Go
    <3>2. events = c
      BY <1>1, <2>0, <3>1
    <3> QED
      BY <1>1, <2>0, <2>2, <3>1, <3>2
  <2>7. CASE Notify(c)
    <3>1. UNCHANGED <<events, fly>> /\ pc[c] = "notify"
      BY <2>7 DEF Notify
    <3>2. pc'[c] = "reap"
      BY <1>1, <2>0, <2>7, Wakes DEF Notify, CallerPlaces
    <3> QED
      BY <1>1, <2>0, <2>2, <3>1, <3>2
  <2>8. CASE LockFlying(c)
    <3>1. UNCHANGED events /\ fly = None /\ fly' = c /\ pc'[c] = "scan"
      BY <2>0, <2>1, <2>8 DEF LockFlying, Go
    <3> QED
      BY <1>1, <2>0, <2>2, <3>1
  <2>9. CASE handle_timeouts_locked(c)
    <3>1. /\ UNCHANGED events /\ pc[c] = "scan"
          /\ \/ UNCHANGED fly /\ pc'[c] = "cancel"
             \/ fly' = None /\ pc'[c] = "loop"
             \/ fly' = None /\ events = c /\ pc'[c] \in {"reap", "unlock"}
      BY <2>0, <2>1, <2>9 DEF handle_timeouts_locked, Handling, Go
    <3>2. fly = c
      BY <1>1, <2>0, <3>1
    <3> QED
      BY <1>1, <2>0, <2>2, <3>1, <3>2
  <2>10. CASE Cancel(c)
    <3>1. UNCHANGED <<events, fly>> /\ pc[c] = "cancel" /\ pc'[c] = "scan"
      BY <2>0, <2>1, <2>10 DEF Cancel, Go
    <3> QED
      BY <1>1, <2>0, <2>2, <3>1
  <2>11. CASE UnlockEvents(c)
    <3>1. UNCHANGED fly /\ pc[c] = "unlock" /\ events' = None /\ pc'[c] = "broadcast"
      BY <2>0, <2>1, <2>11 DEF UnlockEvents, Go
    <3>2. events = c
      BY <1>1, <2>0, <3>1
    <3> QED
      BY <1>1, <2>0, <2>2, <3>1, <3>2
  <2>12. CASE Broadcast(c)
    <3>1. UNCHANGED <<events, fly>>
      BY <2>12 DEF Broadcast
    <3>2. AfterUnlock(c) \in {"failed", "loop"}
      BY <2>0 DEF AfterUnlock
    <3>3. pc'[c] \in {"failed", "loop"}
      BY <1>1, <2>0, <2>12, <3>2, Wakes DEF Broadcast, CallerPlaces
    <3> QED
      BY <1>1, <2>2, <3>1, <3>3
  <2>13. CASE Failed(c)
    <3>1. UNCHANGED <<events, fly>> /\ pc'[c] \in {"done", "loop"}
      BY <2>0, <2>1, <2>13 DEF Failed, Go
    <3> QED
      BY <1>1, <2>2, <3>1
  <2> QED
    BY <1>2, <2>3, <2>4, <2>5, <2>6, <2>7, <2>8, <2>9, <2>10, <2>11, <2>12, <2>13
    DEF do_sync_bulk_transfer, handle_events, handle_timeouts, libusb_unlock_events,
        usbi_handle_transfer_completion
<1>3. ASSUME NEW o \in Openers, libusb_open(o)
      PROVE  LockInv'
  <2>0. o \in Threads /\ o \notin Callers
    BY UsbEventsAssumption DEF Threads
  <2>1. pc[o] \in OpenerPlaces /\ pc \in [Threads -> CallerPlaces \cup OpenerPlaces]
    BY <1>1 DEF PlacesInv
  <2>2. (\A u \in Threads \ {o} : Stays(u)) /\ UNCHANGED fly
    BY <1>1, <1>3, OpenerMoves DEF transfers
  <2> USE DEF LockInv, Stays
  <2>3. CASE Open(o) \/ Modify(o)
    <3>1. UNCHANGED events /\ pc'[o] \in {"modify", "lock_events"}
      BY <2>0, <2>1, <2>3 DEF Open, Modify, Go
    <3> QED
      BY <1>1, <2>2, <3>1
  <2>4. CASE libusb_lock_events(o)
    <3>1. events = None /\ events' = o /\ pc'[o] = "read"
      BY <2>0, <2>1, <2>4 DEF libusb_lock_events, LockEvents, Go
    <3> QED
      BY <1>1, <2>0, <2>2, <3>1
  <2>5. CASE ReadPipe(o) \/ Detach(o)
    <3>1. UNCHANGED events /\ pc[o] \in {"read", "remove"} /\ pc'[o] \in {"do_close", "unlock"}
      BY <2>0, <2>1, <2>5 DEF ReadPipe, Detach, Go
    <3>2. events = o
      BY <1>1, <2>0, <3>1
    <3> QED
      BY <1>1, <2>0, <2>2, <3>1, <3>2
  <2>6. CASE DoClose(o)
    <3>1. UNCHANGED events /\ pc[o] = "do_close"
      BY <2>6 DEF DoClose
    <3>2. pc'[o] = "remove"
      BY <1>1, <2>0, <2>6, Wakes DEF DoClose, OpenerPlaces
    <3> QED
      BY <1>1, <2>0, <2>2, <3>1, <3>2
  <2>7. CASE UnlockEvents(o)
    <3>1. pc[o] = "unlock" /\ events' = None /\ pc'[o] = "broadcast"
      BY <2>0, <2>1, <2>7 DEF UnlockEvents, Go
    <3>2. events = o
      BY <1>1, <2>0, <3>1
    <3> QED
      BY <1>1, <2>0, <2>2, <3>1, <3>2
  <2>8. CASE Broadcast(o)
    <3>1. UNCHANGED events
      BY <2>8 DEF Broadcast, handling
    <3>2. AfterUnlock(o) \in {"modify", "done"}
      BY <2>0, <1>3 DEF AfterUnlock
    <3>3. pc'[o] \in {"modify", "done"}
      BY <1>1, <2>0, <2>8, <3>2, Wakes DEF Broadcast, OpenerPlaces
    <3> QED
      BY <1>1, <2>2, <3>1, <3>3
  <2> QED
    BY <1>3, <2>3, <2>4, <2>5, <2>6, <2>7, <2>8 DEF libusb_open, libusb_unlock_events
<1>4. ASSUME Tick \/ \E c \in Callers : Answer(c), UNCHANGED setup
      PROVE  LockInv'
  BY <1>1, <1>4, OtherMoves DEF LockInv, handling
<1> QED
  BY <1>2, <1>3, <1>4 DEF Next

-----------------------------------------------------------------------------
\* Steps that neither submit a transfer, nor change the list or a status.
LEMMA LifeQuiet ==
  ASSUME LifeInv, UNCHANGED <<flying, status>>,
         \A d \in Callers : urb[d] = "none" => urb'[d] = "none",
         \A d \in Callers : flags'[d] = flags[d] \/ Listed(d, flying) \/ pc'[d] # "submit",
         \A d \in Callers : pc'[d] \in {"submit", "backend", "del"} => pc'[d] = pc[d]
  PROVE  LifeInv'
BY DEF LifeInv

\* Every transfer goes on with its life.
LEMMA LifeKept ==
  ASSUME IInv, Next
  PROVE  LifeInv'
<1>1. /\ TypeInv /\ PlacesInv /\ TransfersInv /\ ThreadsInv /\ ListInv /\ LifeInv /\ AtInv
  BY DEF IInv, TypeInv
<1>2. ASSUME NEW c \in Callers, do_sync_bulk_transfer(c)
      PROVE  LifeInv'
  <2>0. c \in Threads /\ Callers \subseteq Threads /\ c \notin Openers
    BY UsbEventsAssumption DEF Threads
  <2>1. pc[c] \in CallerPlaces /\ pc \in [Threads -> CallerPlaces \cup OpenerPlaces]
    BY <1>1 DEF PlacesInv
  <2>2. \A d \in Callers \ {c} : pc'[d] \in {"submit", "backend", "del"} => pc'[d] = pc[d]
    BY <1>1, <1>2, <2>0, CallerMoves DEF Stays
  <2> USE DEF transfers
  <2>3. CASE Add(c)
    <3>1. /\ UNCHANGED <<urb, status, flags>> /\ pc[c] = "submit" /\ pc'[c] = "backend"
      BY <2>0, <2>1, <2>3 DEF Add, Go
    <3>2. \A d : Listed(d, flying') <=> Listed(d, flying) \/ d = c
      BY <2>3, ListMoves
    <3> QED
      BY <1>1, <2>2, <3>1, <3>2 DEF LifeInv
  <2>4. CASE Submit(c)
    <3>1. /\ UNCHANGED <<flying, status, flags>> /\ pc[c] = "backend"
          /\ \/ urb' = [urb EXCEPT ![c] = "queued"] /\ pc'[c] \in {"arm", "loop"}
             \/ UNCHANGED urb /\ pc'[c] = "del"
      BY <2>0, <2>1, <2>4 DEF Submit, Go
    <3> QED
      BY <1>1, <2>2, <3>1 DEF LifeInv, TransfersInv
  <2>5. CASE Del(c)
    <3>1. UNCHANGED <<urb, status, flags>> /\ pc[c] = "del" /\ pc'[c] = "done"
      BY <2>0, <2>1, <2>5 DEF Del, Go
    <3>2. \A d : Listed(d, flying') <=> Listed(d, flying) /\ d # c
      BY <2>5, ListMoves
    <3> QED
      BY <1>1, <2>2, <3>1, <3>2 DEF LifeInv
  <2>6. CASE Arm(c) \/ Loop(c) \/ get_next_timeout(c) \/ libusb_wait_for_event(c)
    <3>1. UNCHANGED <<flying, urb, status, flags>> /\ pc'[c] \notin {"submit", "backend", "del"}
      BY <2>0, <2>1, <2>6 DEF Arm, Loop, get_next_timeout, FindNext, ReadNext,
           libusb_wait_for_event, Check, Woken, WaitTimeout, Go
    <3> QED
      BY <1>1, <2>2, <3>1, LifeQuiet
  <2>7. CASE libusb_try_lock_events(c) \/ Poll(c) \/ PollFails(c) \/ Disarm(c) \/ LockFlying(c)
    <3>1. UNCHANGED <<flying, urb, status, flags>> /\ pc'[c] \notin {"submit", "backend", "del"}
      BY <2>0, <2>1, <2>7 DEF libusb_try_lock_events, Poll, PollFails, Disarm, LockFlying, Go
    <3> QED
      BY <1>1, <2>2, <3>1, LifeQuiet
  <2>8. CASE handle_timeouts_locked(c)
    <3>1. UNCHANGED <<flying, urb, status>> /\ pc'[c] \notin {"submit", "backend", "del"}
      BY <2>0, <2>1, <2>8 DEF handle_timeouts_locked, Go
    <3>2. \A d \in Callers : flags'[d] = flags[d] \/ Listed(d, flying)
      <4>1. CASE Scan # {}
        <5>1. flags' = [flags EXCEPT ![flying[Min(Scan)]] = @ \cup {"TIMED_OUT"}]
          BY <2>8, <4>1 DEF handle_timeouts_locked
        <5>2. Listed(flying[Min(Scan)], flying)
          BY <1>1, <4>1, ScanFinds
        <5> QED
          BY <1>1, <5>1, <5>2 DEF TransfersInv
      <4>2. CASE Scan = {}
        BY <2>8, <4>2 DEF handle_timeouts_locked
      <4> QED
        BY <4>1, <4>2
    <3> QED
      BY <1>1, <2>2, <3>1, <3>2, LifeQuiet
  <2>9. CASE Cancel(c)
    <3>1. /\ UNCHANGED <<flying, status>> /\ pc[c] = "cancel" /\ pc'[c] = "scan"
          /\ urb' = [urb EXCEPT ![cur[c]] = Killed(cur[c])]
          /\ flags' = [flags EXCEPT ![cur[c]] = @ \cup {"CANCELLING"}]
      BY <2>0, <2>1, <2>9 DEF Cancel, Go
    <3>2. Listed(cur[c], flying)
      BY <1>1, <2>0, <3>1 DEF AtInv
    <3>3. \A d \in Callers : urb[d] = "none" => urb'[d] = "none"
      BY <1>1, <3>1 DEF TransfersInv, Killed
    <3>4. \A d \in Callers : flags'[d] = flags[d] \/ Listed(d, flying)
      BY <1>1, <3>1, <3>2 DEF TransfersInv
    <3> QED
      BY <1>1, <2>2, <3>1, <3>3, <3>4, LifeQuiet
  <2>10. CASE Reap(c)
    <3>1. /\ UNCHANGED <<flying, status, flags>> /\ pc'[c] \in {"complete", "unlock"}
          /\ \A d \in Callers : urb[d] = "none" => urb'[d] = "none"
      BY <1>1, <2>0, <2>1, <2>10 DEF Reap, Go, TransfersInv
    <3> QED
      BY <1>1, <2>2, <3>1, LifeQuiet
  <2>11. CASE Complete(c)
    <3>1. UNCHANGED <<urb, status, flags>> /\ pc[c] = "complete" /\ pc'[c] = "callback"
      BY <2>0, <2>1, <2>11 DEF Complete, Go
    <3>2. \A d : Listed(d, flying') <=> Listed(d, flying) /\ d # cur[c]
      BY <2>11, ListMoves
    <3>3. urb[cur[c]] = "none" /\ pc[cur[c]] \notin {"submit", "backend", "del"}
      BY <1>1, <2>0, <3>1 DEF AtInv
    <3> QED
      BY <1>1, <2>2, <3>1, <3>2, <3>3 DEF LifeInv
  <2>12. CASE Callback(c)
    <3>1. /\ UNCHANGED <<flying, urb, flags>> /\ pc[c] = "callback" /\ pc'[c] = "notify"
          /\ status' = [status EXCEPT ![cur[c]] = verdict[c]]
      BY <2>0, <2>1, <2>12 DEF Callback, Go
    <3>2. /\ ~Listed(cur[c], flying) /\ cur[c] \in Callers
          /\ pc[cur[c]] \notin {"submit", "backend", "del"}
      BY <1>1, <2>0, <3>1 DEF AtInv
    <3>3. \A d \in Callers \ {cur[c]} : status'[d] = status[d]
      BY <1>1, <3>1 DEF TransfersInv
    <3> QED
      BY <1>1, <2>2, <3>1, <3>2, <3>3 DEF LifeInv
  <2>13. CASE Notify(c) \/ Broadcast(c)
    <3>1. UNCHANGED <<flying, urb, status, flags>>
      BY <2>13 DEF Notify, Broadcast
    <3>2. AfterUnlock(c) \in {"failed", "loop"}
      BY <2>0 DEF AfterUnlock
    <3>3. pc'[c] \in {"reap", "failed", "loop"}
      BY <1>1, <2>0, <2>13, <3>2, Wakes DEF Notify, Broadcast, CallerPlaces
    <3> QED
      BY <1>1, <2>2, <3>1, <3>3, LifeQuiet
  <2>14. CASE UnlockEvents(c)
    <3>1. UNCHANGED <<flying, urb, status, flags>> /\ pc'[c] = "broadcast"
      BY <2>0, <2>1, <2>14 DEF UnlockEvents, Go
    <3> QED
      BY <1>1, <2>2, <3>1, LifeQuiet
  <2>15. CASE Failed(c)
    <3>1. /\ UNCHANGED <<flying, status>> /\ pc'[c] \in {"done", "loop"}
          /\ \A d \in Callers : urb[d] = "none" => urb'[d] = "none"
          /\ \A d \in Callers \ {c} : flags'[d] = flags[d]
      BY <1>1, <2>0, <2>1, <2>15 DEF Failed, Killed, Go, TransfersInv
    <3> QED
      BY <1>1, <2>2, <3>1, LifeQuiet
  <2> QED
    BY <1>2, <2>3, <2>4, <2>5, <2>6, <2>7, <2>8, <2>9, <2>10, <2>11, <2>12, <2>13, <2>14, <2>15
    DEF do_sync_bulk_transfer, libusb_submit_transfer, handle_events, handle_timeouts,
        libusb_unlock_events, usbi_handle_transfer_completion
<1>3. ASSUME NEW o \in Openers, libusb_open(o)
      PROVE  LifeInv'
  <2>1. /\ UNCHANGED <<flying, urb, status, flags>>
        /\ \A d \in Callers : pc'[d] \in {"submit", "backend", "del"} => pc'[d] = pc[d]
    BY <1>1, <1>3, OpenerMoves, UsbEventsAssumption DEF transfers, Stays, Threads
  <2> QED
    BY <1>1, <2>1, LifeQuiet
<1>4. ASSUME Tick \/ \E c \in Callers : Answer(c), UNCHANGED setup
      PROVE  LifeInv'
  <2>1. /\ UNCHANGED <<pc, flying, status, flags>>
        /\ \A d \in Callers : urb[d] = "none" => urb'[d] = "none"
    BY <1>1, <1>4, OtherMoves
  <2> QED
    BY <1>1, <2>1, LifeQuiet
<1> QED
  BY <1>2, <1>3, <1>4 DEF Next

-----------------------------------------------------------------------------
\* Steps of threads that come to no transfer, and change neither list nor status.
LEMMA AtQuiet ==
  ASSUME AtInv, UNCHANGED <<flying, status>>,
         \A d \in Callers : urb[d] = "none" => urb'[d] = "none",
         \A d \in Callers : pc'[d] \in {"submit", "backend", "del"} =>
                              pc[d] \in {"submit", "backend", "del"},
         \A t \in Threads : pc'[t] \in {"cancel", "complete", "callback"} =>
                              pc'[t] = pc[t] /\ cur'[t] = cur[t]
  PROVE  AtInv'
BY DEF AtInv

\* Whoever is at a transfer finds it there.
LEMMA AtKept ==
  ASSUME IInv, Next
  PROVE  AtInv'
<1>1. /\ TypeInv /\ PlacesInv /\ TransfersInv /\ ThreadsInv /\ ListInv /\ LifeInv /\ AtInv
      /\ LockInv /\ None \notin Threads
  BY UsbEventsAssumption DEF IInv, TypeInv, Threads
<1>2. ASSUME NEW c \in Callers, do_sync_bulk_transfer(c)
      PROVE  AtInv'
  <2>0. c \in Threads /\ Callers \subseteq Threads /\ c \notin Openers
    BY UsbEventsAssumption DEF Threads
  <2>1. pc[c] \in CallerPlaces /\ pc \in [Threads -> CallerPlaces \cup OpenerPlaces]
    BY <1>1 DEF PlacesInv
  <2>2. /\ PlacesInv'
        /\ \A u \in Threads \ {c} : Stays(u)
    BY <1>1, <1>2, <2>0, CallerMoves
  <2>3. \A u \in Threads \ {c} :
          /\ pc'[u] \in {"submit", "backend", "del"} => pc'[u] = pc[u]
          /\ pc'[u] \in {"cancel", "complete", "callback"} => pc'[u] = pc[u]
    BY <2>2 DEF Stays
  <2>3a. ASSUME UNCHANGED <<flying, status>>,
                \A d \in Callers : urb[d] = "none" => urb'[d] = "none",
                \A u \in Threads \ {c} : cur'[u] = cur[u],
                pc'[c] \notin {"submit", "backend", "del", "cancel", "complete", "callback"}
         PROVE  AtInv'
    <3>1. \A d \in Callers : pc'[d] \in {"submit", "backend", "del"} =>
                               pc[d] \in {"submit", "backend", "del"}
      BY <2>0, <2>3, <2>3a
    <3>2. \A t \in Threads : pc'[t] \in {"cancel", "complete", "callback"} =>
                               pc'[t] = pc[t] /\ cur'[t] = cur[t]
      BY <2>3, <2>3a
    <3> QED
      BY <1>1, <2>3a, <3>1, <3>2, AtQuiet
  <2>3b. ASSUME pc[c] \in {"submit", "backend", "del"},
                pc'[c] \notin {"cancel", "complete", "callback"},
                UNCHANGED <<status, cur>>,
                \A d \in Callers \ {c} :
                  urb'[d] = urb[d] /\ (Listed(d, flying') <=> Listed(d, flying)),
                (\A t \in Threads : pc[t] # "cancel") \/ (Listed(c, flying) => Listed(c, flying'))
         PROVE  AtInv'
    <3> SUFFICES ASSUME NEW t \in Threads, pc'[t] \in {"cancel", "complete", "callback"}
                 PROVE  /\ cur[t] \in Callers
                        /\ pc'[t] \in {"cancel", "complete"} => Listed(cur[t], flying')
                        /\ pc'[t] = "callback" => ~Listed(cur[t], flying')
                        /\ pc'[t] \in {"complete", "callback"} =>
                             /\ urb'[cur[t]] = "none" /\ status[cur[t]] = "none"
                             /\ pc'[cur[t]] \notin {"submit", "backend", "del"}
      BY <2>3b DEF AtInv
    <3>1. pc'[t] = pc[t] /\ cur[t] \in Callers
      BY <1>1, <2>3, <2>3b DEF AtInv
    <3>2. CASE pc[t] = "cancel"
      <4>1. Listed(cur[t], flying)
        BY <1>1, <3>2 DEF AtInv
      <4>2. Listed(cur[t], flying')
        BY <2>3b, <3>1, <3>2, <4>1
      <4> QED
        BY <3>1, <3>2, <4>2
    <3>3. CASE pc[t] \in {"complete", "callback"}
      <4>1. cur[t] # c /\ urb[cur[t]] = "none" /\ status[cur[t]] = "none"
        BY <1>1, <2>3b, <3>3 DEF AtInv
      <4>2. urb'[cur[t]] = "none" /\ pc'[cur[t]] \notin {"submit", "backend", "del"}
        BY <1>1, <2>0, <2>3, <2>3b, <3>1, <3>3, <4>1 DEF AtInv
      <4>3. Listed(cur[t], flying') <=> Listed(cur[t], flying)
        BY <2>3b, <3>1, <4>1
      <4>4. /\ pc[t] = "complete" => Listed(cur[t], flying)
            /\ pc[t] = "callback" => ~Listed(cur[t], flying)
        BY <1>1 DEF AtInv
      <4> QED
        BY <3>1, <3>3, <4>1, <4>2, <4>3, <4>4
    <3> QED
      BY <3>1, <3>2, <3>3
  <2> USE DEF transfers, local
  <2>4. CASE Add(c)
    <3>1. /\ UNCHANGED <<urb, status, cur>> /\ pc[c] = "submit" /\ pc'[c] = "backend"
      BY <2>0, <2>1, <2>4 DEF Add, Go
    <3>2. \A d : Listed(d, flying') <=> Listed(d, flying) \/ d = c
      BY <2>4, ListMoves
    <3> QED
      BY <2>3b, <3>1, <3>2
  <2>5. CASE Submit(c)
    <3>1. /\ UNCHANGED <<flying, status, cur>> /\ pc[c] = "backend"
          /\ pc'[c] \in {"arm", "loop", "del"}
          /\ \A d \in Callers \ {c} : urb'[d] = urb[d]
      BY <1>1, <2>0, <2>1, <2>5 DEF Submit, Go, TransfersInv
    <3> QED
      BY <2>3b, <3>1
  <2>6. CASE Del(c)
    <3>1. UNCHANGED <<urb, status, cur>> /\ pc[c] = "del" /\ pc'[c] = "done" /\ fly = None
      BY <2>0, <2>1, <2>6 DEF Del, Go
    <3>2. \A d : Listed(d, flying') <=> Listed(d, flying) /\ d # c
      BY <2>6, ListMoves
    <3>3. \A t \in Threads : pc[t] # "cancel"
      BY <1>1, <3>1 DEF LockInv
    <3> QED
      BY <2>3b, <3>1, <3>2, <3>3
  <2>7. CASE Arm(c) \/ Loop(c) \/ ReadNext(c) \/ libusb_wait_for_event(c)
    <3>1. /\ UNCHANGED <<flying, urb, status, cur>>
          /\ pc'[c] \in {"loop", "done", "try", "next", "timeouts", "wait"}
      BY <2>0, <2>1, <2>7 DEF Arm, Loop, ReadNext, libusb_wait_for_event, Check, Woken,
           WaitTimeout, Go
    <3> QED
      BY <2>3a, <3>1
  <2>8. CASE FindNext(c)
    <3>1. /\ UNCHANGED <<flying, urb, status>> /\ pc'[c] = "read_next"
          /\ \A u \in Threads \ {c} : cur'[u] = cur[u]
      BY <1>1, <2>0, <2>1, <2>8 DEF FindNext, Go, ThreadsInv
    <3> QED
      BY <2>3a, <3>1
  <2>9. CASE libusb_try_lock_events(c) \/ Poll(c) \/ PollFails(c) \/ Disarm(c) \/ LockFlying(c)
    <3>1. /\ UNCHANGED <<flying, urb, status, cur>>
          /\ pc'[c] \in {"check", "unlock", "poll", "disarm", "reap", "timeouts", "scan"}
      BY <2>0, <2>1, <2>9 DEF libusb_try_lock_events, Poll, PollFails, Disarm, LockFlying, Go
    <3> QED
      BY <2>3a, <3>1
  <2>10. CASE handle_timeouts_locked(c)
    <3>1. /\ UNCHANGED <<flying, urb, status>>
          /\ \A u \in Threads \ {c} : cur'[u] = cur[u]
      BY <1>1, <2>0, <2>10 DEF handle_timeouts_locked, ThreadsInv
    <3>2. CASE Scan # {}
      <4>1. pc'[c] = "cancel" /\ cur'[c] = flying[Min(Scan)]
        BY <1>1, <2>0, <2>1, <2>10, <3>2 DEF handle_timeouts_locked, Go, ThreadsInv
      <4>2. flying[Min(Scan)] \in Callers /\ Listed(flying[Min(Scan)], flying)
        BY <1>1, <3>2, ScanFinds
      <4>3. cur'[c] \in Callers /\ Listed(cur'[c], flying')
        BY <3>1, <4>1, <4>2
      <4>4. \A d \in Callers : pc'[d] \in {"submit", "backend", "del"} =>
                                 pc[d] \in {"submit", "backend", "del"}
        BY <2>0, <2>3, <4>1
      <4>5. ASSUME NEW t \in Threads \ {c}, pc'[t] \in {"cancel", "complete", "callback"}
            PROVE  pc'[t] = pc[t] /\ cur'[t] = cur[t]
        BY <2>3, <3>1, <4>5
      <4> QED
        BY <1>1, <3>1, <4>1, <4>3, <4>4, <4>5 DEF AtInv
    <3>3. CASE Scan = {}
      <4>1. pc'[c] \in {"loop", "reap", "unlock"}
        BY <2>0, <2>1, <2>10, <3>3 DEF handle_timeouts_locked, Go
      <4> QED
        BY <2>3a, <3>1, <4>1
    <3> QED
      BY <3>2, <3>3
  <2>11. CASE Cancel(c) \/ Failed(c)
    <3>1. /\ UNCHANGED <<flying, status, cur>> /\ pc'[c] \in {"scan", "loop", "done"}
          /\ \A d \in Callers : urb[d] = "none" => urb'[d] = "none"
      BY <1>1, <2>0, <2>1, <2>11 DEF Cancel, Failed, Killed, Go, TransfersInv
    <3> QED
      BY <2>3a, <3>1
  <2>12. CASE Reap(c)
    <3>1. /\ UNCHANGED <<flying, status>> /\ pc[c] = "reap"
          /\ \A u \in Threads \ {c} : cur'[u] = cur[u]
          /\ \A d \in Callers : urb[d] = "none" => urb'[d] = "none"
      BY <1>1, <2>0, <2>1, <2>12 DEF Reap, Go, TransfersInv, ThreadsInv
    <3>2. CASE pc'[c] = "unlock"
      BY <2>3a, <3>1, <3>2
    <3>3. CASE pc'[c] # "unlock"
      <4>1. PICK d \in Callers : /\ urb[d] \in {"ready", "killed"}
                                 /\ urb' = [urb EXCEPT ![d] = "none"]
                                 /\ cur' = [cur EXCEPT ![c] = d]
                                 /\ pc'[c] = "complete"
        BY <2>0, <2>1, <2>12, <3>3 DEF Reap, Go
      <4>2. Listed(d, flying) /\ status[d] = "none" /\ pc[d] \notin {"submit", "backend", "del"}
        BY <1>1, <4>1 DEF LifeInv
      <4>3. cur'[c] = d /\ urb'[d] = "none" /\ pc'[d] \notin {"submit", "backend", "del"}
        BY <1>1, <2>0, <2>3, <4>1, <4>2 DEF ThreadsInv, TransfersInv
      <4> QED
        BY <1>1, <2>0, <2>3, <3>1, <4>1, <4>2, <4>3 DEF AtInv
    <3> QED
      BY <3>2, <3>3
  <2>13. CASE Complete(c)
    <3>1. /\ UNCHANGED <<urb, status, cur>> /\ pc[c] = "complete" /\ pc'[c] = "callback"
          /\ fly = None
      BY <2>0, <2>1, <2>13 DEF Complete, Go
    <3>2. \A d : Listed(d, flying') <=> Listed(d, flying) /\ d # cur[c]
      BY <2>13, ListMoves
    <3>3. \A t \in Threads \ {c} : pc[t] \notin {"cancel", "complete", "callback"}
      BY <1>1, <2>0, <3>1 DEF LockInv
    <3> QED
      BY <1>1, <2>0, <2>3, <3>1, <3>2, <3>3 DEF AtInv
  <2>14. CASE Callback(c)
    <3>1. /\ UNCHANGED <<flying, urb, cur>> /\ pc[c] = "callback" /\ pc'[c] = "notify"
          /\ status' = [status EXCEPT ![cur[c]] = verdict[c]]
      BY <2>0, <2>1, <2>14 DEF Callback, Go
    <3>2. \A t \in Threads \ {c} : pc[t] \notin {"complete", "callback"}
      BY <1>1, <2>0, <3>1 DEF LockInv
    <3> QED
      BY <1>1, <2>0, <2>3, <3>1, <3>2 DEF AtInv
  <2>15. CASE Notify(c) \/ Broadcast(c)
    <3>1. /\ UNCHANGED <<flying, urb, status>>
          /\ \A u \in Threads \ {c} : cur'[u] = cur[u]
      BY <1>1, <2>0, <2>15 DEF Notify, Broadcast, ThreadsInv
    <3>2. AfterUnlock(c) \in {"failed", "loop"}
      BY <2>0 DEF AfterUnlock
    <3>3. pc'[c] \in {"reap", "failed", "loop"}
      BY <1>1, <2>0, <2>15, <3>2, Wakes DEF Notify, Broadcast, CallerPlaces
    <3> QED
      BY <2>3a, <3>1, <3>3
  <2>16. CASE UnlockEvents(c)
    <3>1. UNCHANGED <<flying, urb, status, cur>> /\ pc'[c] = "broadcast"
      BY <2>0, <2>1, <2>16 DEF UnlockEvents, Go
    <3> QED
      BY <2>3a, <3>1
  <2> QED
    BY <1>2, <2>4, <2>5, <2>6, <2>7, <2>8, <2>9, <2>10, <2>11, <2>12, <2>13, <2>14, <2>15, <2>16
    DEF do_sync_bulk_transfer, libusb_submit_transfer, get_next_timeout, handle_events,
        handle_timeouts, libusb_unlock_events, usbi_handle_transfer_completion
<1>3. ASSUME NEW o \in Openers, libusb_open(o)
      PROVE  AtInv'
  <2>1. /\ UNCHANGED <<flying, urb, status, cur>> /\ PlacesInv'
        /\ \A u \in Threads \ {o} : Stays(u)
    BY <1>1, <1>3, OpenerMoves DEF transfers
  <2>2. o \in Threads /\ o \notin Callers /\ Callers \subseteq Threads
    BY UsbEventsAssumption DEF Threads
  <2>3. pc'[o] \notin {"cancel", "complete", "callback"}
    BY <2>1, <2>2 DEF PlacesInv, OpenerPlaces
  <2>4. /\ \A d \in Callers : pc'[d] \in {"submit", "backend", "del"} => pc'[d] = pc[d]
        /\ \A t \in Threads : pc'[t] \in {"cancel", "complete", "callback"} => pc'[t] = pc[t]
    BY <2>1, <2>2, <2>3 DEF Stays
  <2> QED
    BY <1>1, <2>1, <2>4, AtQuiet
<1>4. ASSUME Tick \/ \E c \in Callers : Answer(c), UNCHANGED setup
      PROVE  AtInv'
  <2>1. /\ UNCHANGED <<pc, flying, status, cur>> /\ PlacesInv'
        /\ \A d \in Callers : urb[d] = "none" => urb'[d] = "none"
    BY <1>1, <1>4, OtherMoves DEF local, TypeInv
  <2> QED
    BY <1>1, <2>1, AtQuiet
<1> QED
  BY <1>2, <1>3, <1>4 DEF Next

-----------------------------------------------------------------------------
\* A timeout that is over stays so, while the transfer is not submitted again.
LEMMA ExpiredStays ==
  ASSUME TransfersInv, NEW d \in Callers, deadline'[d] = deadline[d], now' \in {now, now + 1},
         deadline[d] # 0, deadline[d] <= now
  PROVE  deadline'[d] # 0 /\ deadline'[d] <= now'
BY DEF TransfersInv

\* Steps that mark, reap and complete nothing.
LEMMA TimedOutQuiet ==
  ASSUME TransfersInv, TimedOutInv, AtInv, now' \in {now, now + 1}, UNCHANGED <<deadline, status>>,
         \A d \in Callers : "TIMED_OUT" \in flags'[d] => "TIMED_OUT" \in flags[d],
         \A t \in Threads : pc'[t] \in {"complete", "callback"} =>
            pc[t] \in {"complete", "callback"} /\ cur'[t] = cur[t] /\ verdict'[t] = verdict[t]
  PROVE  TimedOutInv'
<1>1. \A d \in Callers : Expired(d) => deadline'[d] # 0 /\ deadline'[d] <= now'
  BY ExpiredStays DEF Expired
<1>2. ASSUME NEW d \in Callers, "TIMED_OUT" \in flags'[d] PROVE Expired(d)'
  BY <1>1, <1>2 DEF TimedOutInv, Expired
<1>3. ASSUME NEW d \in Callers, status'[d] = "TIMED_OUT" PROVE Expired(d)'
  BY <1>1, <1>3 DEF TimedOutInv, Expired
<1>4. ASSUME NEW t \in Threads, pc'[t] \in {"complete", "callback"}
      PROVE  verdict'[t] # "none" /\ (verdict'[t] = "TIMED_OUT" => Expired(cur[t])')
  <2>1. cur[t] \in Callers /\ cur'[t] = cur[t] /\ verdict'[t] = verdict[t]
    BY <1>4 DEF AtInv
  <2>2. verdict[t] # "none" /\ (verdict[t] = "TIMED_OUT" => Expired(cur[t]))
    BY <1>4 DEF TimedOutInv
  <2>3. Expired(cur[t]) => Expired(cur[t])'
    BY <1>1, <2>1 DEF Expired
  <2> QED
    BY <2>1, <2>2, <2>3
<1> QED
  BY <1>2, <1>3, <1>4 DEF TimedOutInv

\* What is marked, and reported, as timed out has timed out.
LEMMA TimedOutKept ==
  ASSUME IInv, Next
  PROVE  TimedOutInv'
<1>1. /\ PlacesInv /\ TransfersInv /\ ThreadsInv /\ ListInv /\ LifeInv /\ AtInv
      /\ TimedOutInv /\ LockInv
  BY DEF IInv, TypeInv
<1>2. ASSUME NEW c \in Callers, do_sync_bulk_transfer(c)
      PROVE  TimedOutInv'
  <2>0. c \in Threads /\ Callers \subseteq Threads /\ c \notin Openers
    BY UsbEventsAssumption DEF Threads
  <2>1. pc[c] \in CallerPlaces /\ pc \in [Threads -> CallerPlaces \cup OpenerPlaces]
    BY <1>1 DEF PlacesInv
  <2>2. \A u \in Threads \ {c} : pc'[u] \in {"complete", "callback"} => pc'[u] = pc[u]
    BY <1>1, <1>2, <2>0, CallerMoves DEF Stays
  <2>3. ASSUME UNCHANGED <<now, deadline, status>>,
               \A d \in Callers : "TIMED_OUT" \in flags'[d] => "TIMED_OUT" \in flags[d],
               \A u \in Threads \ {c} : cur'[u] = cur[u] /\ verdict'[u] = verdict[u],
               pc'[c] \in {"complete", "callback"} =>
                 /\ pc[c] \in {"complete", "callback"}
                 /\ cur'[c] = cur[c] /\ verdict'[c] = verdict[c]
        PROVE  TimedOutInv'
    BY <1>1, <2>2, <2>3, TimedOutQuiet
  <2> USE DEF transfers, local
  <2>4. CASE Add(c)
    <3>1. /\ UNCHANGED <<now, flags, status, cur, verdict>>
          /\ pc[c] = "submit" /\ pc'[c] = "backend"
          /\ \A d \in Callers \ {c} : deadline'[d] = deadline[d]
      BY <1>1, <2>0, <2>1, <2>4 DEF Add, Go, TransfersInv
    <3>2. \A d \in Callers \ {c} : Expired(d) => Expired(d)'
      BY <3>1 DEF Expired
    <3>3. flags[c] = {} /\ status[c] = "none"
      BY <1>1, <3>1 DEF LifeInv
    <3>4. ASSUME NEW t \in Threads, pc'[t] \in {"complete", "callback"}
          PROVE  verdict[t] # "none" /\ (verdict[t] = "TIMED_OUT" => Expired(cur[t])')
      <4>1. pc[t] \in {"complete", "callback"}
        BY <2>2, <3>1, <3>4
      <4>2. cur[t] \in Callers /\ cur[t] # c
        BY <1>1, <3>1, <4>1 DEF AtInv
      <4>3. verdict[t] # "none" /\ (verdict[t] = "TIMED_OUT" => Expired(cur[t]))
        BY <1>1, <4>1 DEF TimedOutInv
      <4>4. Expired(cur[t]) => Expired(cur[t])'
        BY <3>1, <4>2 DEF Expired
      <4> QED
        BY <4>3, <4>4
    <3> QED
      BY <1>1, <3>1, <3>2, <3>3, <3>4 DEF TimedOutInv
  <2>5. CASE Submit(c) \/ Arm(c) \/ Del(c) \/ Loop(c) \/ ReadNext(c)
    <3>1. /\ UNCHANGED <<now, deadline, flags, status, cur, verdict>>
          /\ pc'[c] \notin {"complete", "callback"}
      BY <2>0, <2>1, <2>5 DEF Submit, Arm, Del, Loop, ReadNext, Go
    <3> QED
      BY <2>3, <3>1
  <2>6. CASE FindNext(c)
    <3>1. /\ UNCHANGED <<now, deadline, flags, status, verdict>>
          /\ pc'[c] \notin {"complete", "callback"}
          /\ \A u \in Threads \ {c} : cur'[u] = cur[u]
      BY <1>1, <2>0, <2>1, <2>6 DEF FindNext, Go, ThreadsInv
    <3> QED
      BY <2>3, <3>1
  <2>7. CASE libusb_try_lock_events(c) \/ libusb_wait_for_event(c) \/ UnlockEvents(c)
    <3>1. /\ UNCHANGED <<now, deadline, flags, status, cur, verdict>>
          /\ pc'[c] \notin {"complete", "callback"}
      BY <2>0, <2>1, <2>7 DEF libusb_try_lock_events, libusb_wait_for_event, Check, Woken,
           WaitTimeout, UnlockEvents, Go
    <3> QED
      BY <2>3, <3>1
  <2>8. CASE Poll(c) \/ PollFails(c) \/ Disarm(c) \/ LockFlying(c)
    <3>1. /\ UNCHANGED <<now, deadline, flags, status, cur, verdict>>
          /\ pc'[c] \notin {"complete", "callback"}
      BY <2>0, <2>1, <2>8 DEF Poll, PollFails, Disarm, LockFlying, Go
    <3> QED
      BY <2>3, <3>1
  <2>9. CASE handle_timeouts_locked(c)
    <3>1. /\ UNCHANGED <<now, deadline, status, verdict>>
          /\ \A u \in Threads \ {c} : cur'[u] = cur[u]
          /\ pc'[c] \notin {"complete", "callback"}
      BY <1>1, <2>0, <2>1, <2>9 DEF handle_timeouts_locked, Go, ThreadsInv
    <3>2. CASE Scan # {}
      <4> DEFINE d == flying[Min(Scan)]
      <4>1. d \in Callers /\ Expired(d)
        BY <1>1, <3>2, ScanFinds
      <4>2. flags' = [flags EXCEPT ![d] = @ \cup {"TIMED_OUT"}]
        BY <2>9, <3>2 DEF handle_timeouts_locked
      <4> HIDE DEF d
      <4>3. ASSUME NEW e \in Callers, "TIMED_OUT" \in flags'[e] PROVE Expired(e)'
        <5>1. Expired(e)
          BY <1>1, <4>1, <4>2, <4>3 DEF TimedOutInv, TransfersInv
        <5> QED
          BY <3>1, <5>1 DEF Expired
      <4>4. ASSUME NEW e \in Callers, status'[e] = "TIMED_OUT" PROVE Expired(e)'
        BY <1>1, <3>1, <4>4 DEF TimedOutInv, Expired
      <4>5. ASSUME NEW t \in Threads, pc'[t] \in {"complete", "callback"}
            PROVE  verdict'[t] # "none" /\ (verdict'[t] = "TIMED_OUT" => Expired(cur[t])')
        <5>1. /\ pc[t] \in {"complete", "callback"}
              /\ cur'[t] = cur[t] /\ verdict'[t] = verdict[t]
          BY <2>2, <3>1, <4>5
        <5>2. verdict[t] # "none" /\ (verdict[t] = "TIMED_OUT" => Expired(cur[t]))
          BY <1>1, <5>1 DEF TimedOutInv
        <5>3. Expired(cur[t]) => Expired(cur[t])'
          BY <3>1, <5>1 DEF Expired
        <5> QED
          BY <5>1, <5>2, <5>3
      <4> QED
        BY <4>3, <4>4, <4>5 DEF TimedOutInv
    <3>3. CASE Scan = {}
      <4>1. UNCHANGED flags
        BY <2>9, <3>3 DEF handle_timeouts_locked
      <4> QED
        BY <2>3, <3>1, <4>1
    <3> QED
      BY <3>2, <3>3
  <2>10. CASE Cancel(c) \/ Failed(c)
    <3>1. /\ UNCHANGED <<now, deadline, status, cur, verdict>>
          /\ pc'[c] \notin {"complete", "callback"}
          /\ \A d \in Callers : "TIMED_OUT" \in flags'[d] => "TIMED_OUT" \in flags[d]
      BY <1>1, <2>0, <2>1, <2>10 DEF Cancel, Failed, Go, TransfersInv
    <3> QED
      BY <2>3, <3>1
  <2>11. CASE Reap(c)
    <3>1. UNCHANGED <<now, deadline, flags, status>>
      BY <2>11 DEF Reap
    <3>2. CASE pc'[c] = "unlock"
      <4>1. UNCHANGED <<cur, verdict>>
        BY <2>0, <2>1, <2>11, <3>2 DEF Reap, Go
      <4> QED
        BY <2>3, <3>1, <3>2, <4>1
    <3>3. CASE pc'[c] # "unlock"
      <4>1. PICK d \in Callers : /\ cur' = [cur EXCEPT ![c] = d]
                                 /\ verdict' = [verdict EXCEPT ![c] = Verdict(d)]
        BY <2>0, <2>1, <2>11, <3>3 DEF Reap, Go
      <4>2. /\ cur'[c] = d /\ verdict'[c] = Verdict(d)
            /\ \A u \in Threads \ {c} : cur'[u] = cur[u] /\ verdict'[u] = verdict[u]
        BY <1>1, <2>0, <4>1 DEF ThreadsInv
      <4>3. Verdict(d) # "none" /\ (Verdict(d) = "TIMED_OUT" => Expired(d))
        BY <1>1 DEF Verdict, TimedOutInv
      <4>4. \A e : Expired(e) => deadline'[e] # 0 /\ deadline'[e] <= now'
        BY <3>1 DEF Expired
      <4>5. ASSUME NEW t \in Threads, pc'[t] \in {"complete", "callback"}
            PROVE  /\ verdict'[t] # "none"
                   /\ verdict'[t] = "TIMED_OUT" => deadline'[cur'[t]] # 0 /\ deadline'[cur'[t]] <= now'
        <5>1. CASE t = c
          BY <4>2, <4>3, <4>4, <5>1
        <5>2. CASE t # c
          BY <1>1, <2>2, <4>2, <4>4, <4>5, <5>2 DEF TimedOutInv
        <5> QED
          BY <5>1, <5>2
      <4>6. /\ \A e \in Callers : "TIMED_OUT" \in flags'[e] =>
                                    deadline'[e] # 0 /\ deadline'[e] <= now'
            /\ \A e \in Callers : status'[e] = "TIMED_OUT" =>
                                    deadline'[e] # 0 /\ deadline'[e] <= now'
        BY <1>1, <3>1, <4>4 DEF TimedOutInv
      <4> QED
        BY <4>5, <4>6 DEF TimedOutInv, Expired
    <3> QED
      BY <3>2, <3>3
  <2>12. CASE Complete(c)
    <3>1. /\ UNCHANGED <<now, deadline, flags, status, cur, verdict>> /\ pc[c] = "complete"
      BY <2>12 DEF Complete
    <3> QED
      BY <2>3, <3>1
  <2>13. CASE Callback(c)
    <3>1. /\ UNCHANGED <<now, deadline, flags, cur, verdict>>
          /\ pc[c] = "callback" /\ pc'[c] = "notify"
          /\ status' = [status EXCEPT ![cur[c]] = verdict[c]]
      BY <2>0, <2>1, <2>13 DEF Callback, Go
    <3>2. verdict[c] = "TIMED_OUT" => Expired(cur[c])
      BY <1>1, <2>0, <3>1 DEF TimedOutInv
    <3>3. \A e : Expired(e) <=> Expired(e)'
      BY <3>1 DEF Expired
    <3>4. ASSUME NEW e \in Callers, status'[e] = "TIMED_OUT" PROVE Expired(e)
      BY <1>1, <3>1, <3>2, <3>4 DEF TimedOutInv, TransfersInv
    <3>5. ASSUME NEW t \in Threads, pc'[t] \in {"complete", "callback"}
          PROVE  verdict[t] # "none" /\ (verdict[t] = "TIMED_OUT" => Expired(cur[t]))
      BY <1>1, <2>2, <3>1, <3>5 DEF TimedOutInv
    <3>6. ASSUME NEW e \in Callers, "TIMED_OUT" \in flags[e] PROVE Expired(e)
      BY <1>1, <3>6 DEF TimedOutInv
    <3> QED
      BY <3>1, <3>4, <3>5, <3>6 DEF TimedOutInv, Expired
  <2>14. CASE Notify(c) \/ Broadcast(c)
    <3>1. /\ UNCHANGED <<now, deadline, flags, status>>
          /\ \A u \in Threads \ {c} : cur'[u] = cur[u] /\ verdict'[u] = verdict[u]
      BY <1>1, <2>0, <2>14 DEF Notify, Broadcast, ThreadsInv
    <3>2. AfterUnlock(c) \in {"failed", "loop"}
      BY <2>0 DEF AfterUnlock
    <3>3. pc'[c] \in {"reap", "failed", "loop"}
      BY <1>1, <2>0, <2>14, <3>2, Wakes DEF Notify, Broadcast, CallerPlaces
    <3> QED
      BY <2>3, <3>1, <3>3
  <2> QED
    BY <1>2, <2>4, <2>5, <2>6, <2>7, <2>8, <2>9, <2>10, <2>11, <2>12, <2>13, <2>14
    DEF do_sync_bulk_transfer, libusb_submit_transfer, get_next_timeout, handle_events,
        handle_timeouts, libusb_unlock_events, usbi_handle_transfer_completion
<1>3. ASSUME NEW o \in Openers, libusb_open(o)
      PROVE  TimedOutInv'
  <2>1. /\ UNCHANGED <<now, deadline, flags, status, cur, verdict>> /\ PlacesInv'
        /\ \A u \in Threads \ {o} : Stays(u)
    BY <1>1, <1>3, OpenerMoves DEF transfers
  <2>2. \A t \in Threads : pc'[t] \in {"complete", "callback"} => pc'[t] = pc[t]
    <3>1. pc'[o] \notin {"complete", "callback"}
      BY <2>1 DEF PlacesInv, OpenerPlaces
    <3> QED
      BY <2>1, <3>1 DEF Stays
  <2> QED
    BY <1>1, <2>1, <2>2, TimedOutQuiet
<1>4. ASSUME Tick \/ \E c \in Callers : Answer(c), UNCHANGED setup
      PROVE  TimedOutInv'
  <2>0. TypeInv
    BY DEF IInv
  <2>1. UNCHANGED <<pc, deadline, flags, status, cur, verdict>> /\ now' \in {now, now + 1}
    BY <1>4, <2>0, OtherMoves DEF local
  <2> QED
    BY <1>1, <2>1, TimedOutQuiet
<1> QED
  BY <1>2, <1>3, <1>4 DEF Next

-----------------------------------------------------------------------------
\* An error that a thread was told of.
Told(d) == "io" \in found[d] \/ "interrupted" \in found[d]

\* Only PollFails makes a caller fail, and it is told so until the broadcast.
LEMMA FailingMoves ==
  ASSUME IInv, NEW c \in Callers, do_sync_bulk_transfer(c)
  PROVE  /\ \A d \in Callers : Failing(d)' => Failing(d) \/ (d = c /\ PollFails(c))
         /\ \A d \in Callers : pc'[d] \notin {"unlock", "broadcast"} => ~Told(d)'
         /\ PollFails(c) \/ UNCHANGED errors
         /\ UNCHANGED quit \/ (Failed(c) /\ quit' = quit \cup {c} /\ c \notin quit)
<1>1. PlacesInv /\ ThreadsInv /\ ErrorsInv
  BY DEF IInv, TypeInv
<1>2. c \in Threads /\ Callers \subseteq Threads /\ c \notin Openers
  BY UsbEventsAssumption DEF Threads
<1>3. pc[c] \in CallerPlaces /\ pc \in [Threads -> CallerPlaces \cup OpenerPlaces]
  BY <1>1 DEF PlacesInv
<1>4. \A d \in Callers \ {c} : Stays(d)
  BY <1>1, <1>2, CallerMoves
<1>5. \A d \in Callers : pc[d] \notin {"unlock", "broadcast"} => ~Told(d)
  BY <1>1 DEF ErrorsInv, Told
<1>6. ASSUME \A d \in Callers \ {c} : found'[d] = found[d],
             Told(c)' => Told(c) \/ PollFails(c),
             Told(c)' => pc'[c] \in {"unlock", "broadcast"},
             pc'[c] = "failed" => Failing(c)
      PROVE  /\ \A d \in Callers : Failing(d)' => Failing(d) \/ (d = c /\ PollFails(c))
             /\ \A d \in Callers : pc'[d] \notin {"unlock", "broadcast"} => ~Told(d)'
  <2>1. \A d \in Callers \ {c} : /\ Told(d)' <=> Told(d)
                                 /\ pc'[d] = "failed" => pc[d] = "failed"
                                 /\ pc'[d] \notin {"unlock", "broadcast"} =>
                                      pc[d] \notin {"unlock", "broadcast"}
    BY <1>4, <1>6 DEF Told, Stays
  <2> QED
    BY <1>5, <1>6, <2>1 DEF Failing, Told
<1>7. ASSUME UNCHANGED <<found, quit, errors>>, pc'[c] # "failed",
             pc'[c] \in {"unlock", "broadcast"} \/ pc[c] \notin {"unlock", "broadcast"}
      PROVE  /\ \A d \in Callers : Failing(d)' => Failing(d) \/ (d = c /\ PollFails(c))
             /\ \A d \in Callers : pc'[d] \notin {"unlock", "broadcast"} => ~Told(d)'
             /\ UNCHANGED <<errors, quit>>
  <2>1. Told(c)' <=> Told(c)
    BY <1>7 DEF Told
  <2> QED
    BY <1>5, <1>6, <1>7, <2>1
<1> USE DEF local
<1>8. CASE Add(c)
  <2>1. UNCHANGED <<quit, errors>> /\ pc'[c] = "backend"
    BY <1>2, <1>3, <1>8 DEF Add, Go
  <2>2. found'[c] \subseteq {"first"} /\ \A d \in Callers \ {c} : found'[d] = found[d]
    BY <1>1, <1>2, <1>8 DEF Add, ThreadsInv
  <2> QED
    BY <1>6, <2>1, <2>2 DEF Told
<1>9. CASE Submit(c) \/ Arm(c) \/ Del(c) \/ Loop(c) \/ get_next_timeout(c)
  BY <1>2, <1>3, <1>7, <1>9 DEF Submit, Arm, Del, Loop, get_next_timeout, FindNext, ReadNext, Go
<1>10. CASE libusb_try_lock_events(c) \/ libusb_wait_for_event(c) \/ UnlockEvents(c)
  <2>1. /\ UNCHANGED <<found, quit, errors>> /\ pc'[c] # "failed"
        /\ pc'[c] \in {"unlock", "broadcast"} \/ pc[c] \notin {"unlock", "broadcast"}
    BY <1>2, <1>3, <1>10 DEF libusb_try_lock_events, libusb_wait_for_event, Check, Woken,
         WaitTimeout, UnlockEvents, Go
  <2> QED
    BY <1>7, <2>1
<1>11. CASE Poll(c)
  <2>1. UNCHANGED <<quit, errors>> /\ pc'[c] # "failed"
    BY <1>2, <1>3, <1>11 DEF Poll, Go
  <2>2. found' = [found EXCEPT ![c] = Readable] \/ found' = [found EXCEPT ![c] = {}]
    BY <1>11 DEF Poll
  <2>3. "io" \notin Readable /\ "interrupted" \notin Readable
    BY DEF Readable
  <2>4. ~Told(c)' /\ \A d \in Callers \ {c} : found'[d] = found[d]
    BY <1>1, <1>2, <2>2, <2>3 DEF Told, ThreadsInv
  <2> QED
    BY <1>6, <2>1, <2>4
<1>12. CASE PollFails(c)
  <2>1. UNCHANGED quit /\ pc'[c] = "unlock"
    BY <1>2, <1>3, <1>12 DEF PollFails, Go
  <2>2. \A d \in Callers \ {c} : found'[d] = found[d]
    BY <1>1, <1>2, <1>12 DEF PollFails, ThreadsInv
  <2> QED
    BY <1>6, <1>12, <2>1, <2>2
<1>13. CASE Disarm(c) \/ Reap(c) \/ Complete(c) \/ Callback(c)
  BY <1>2, <1>3, <1>7, <1>13 DEF Disarm, Reap, Complete, Callback, Go
<1>14. CASE Notify(c)
  <2>1. pc'[c] = "reap" /\ pc[c] = "notify"
    BY <1>1, <1>2, <1>14, Wakes DEF Notify, CallerPlaces
  <2> QED
    BY <1>7, <1>14, <2>1 DEF Notify
<1>15. CASE handle_timeouts(c)
  <2>1. /\ UNCHANGED <<found, quit, errors>> /\ pc'[c] # "failed"
        /\ pc[c] \notin {"unlock", "broadcast"}
    BY <1>2, <1>3, <1>15 DEF handle_timeouts, LockFlying, handle_timeouts_locked, Cancel, Go
  <2> QED
    BY <1>7, <2>1
<1>16. CASE Broadcast(c)
  <2>1. UNCHANGED <<quit, errors>>
    BY <1>16 DEF Broadcast
  <2>2. found'[c] = {} /\ \A d \in Callers \ {c} : found'[d] = found[d]
    BY <1>1, <1>2, <1>16 DEF Broadcast, ThreadsInv
  <2>3. AfterUnlock(c) \in {"failed", "loop"} /\ (AfterUnlock(c) = "failed" => Told(c))
    BY <1>2 DEF AfterUnlock, Told
  <2>4. pc'[c] = AfterUnlock(c)
    BY <1>1, <1>2, <1>16, <2>3, Wakes DEF Broadcast, CallerPlaces
  <2>5. ~Told(c)' /\ (pc'[c] = "failed" => Failing(c))
    BY <2>2, <2>3, <2>4 DEF Told, Failing
  <2> QED
    BY <1>6, <2>1, <2>2, <2>5
<1>17. CASE Failed(c)
  <2>1. UNCHANGED <<found, errors>> /\ pc[c] = "failed" /\ pc'[c] \in {"loop", "done"}
    BY <1>2, <1>3, <1>17 DEF Failed, Go
  <2>2. UNCHANGED quit \/ (quit' = quit \cup {c} /\ c \notin quit)
    BY <1>17 DEF Failed
  <2>3. (Told(c)' <=> Told(c)) /\ ~Told(c)
    BY <1>5, <2>1 DEF Told
  <2> QED
    BY <1>6, <1>17, <2>1, <2>2, <2>3
<1> QED
  BY <1>8, <1>9, <1>10, <1>11, <1>12, <1>13, <1>14, <1>15, <1>16, <1>17
  DEF do_sync_bulk_transfer, libusb_submit_transfer, handle_events,
      libusb_unlock_events, usbi_handle_transfer_completion

\* Errors stay counted.
LEMMA ErrorsKept ==
  ASSUME IInv, Next
  PROVE  ErrorsInv'
<1>1. PlacesInv /\ TransfersInv /\ ThreadsInv /\ TypeInv /\ ErrorsInv /\ errors \in Nat
  <2>1. PlacesInv /\ TransfersInv /\ ThreadsInv /\ TypeInv /\ ErrorsInv
    BY DEF IInv, TypeInv
  <2> QED
    BY <2>1, UsbEventsAssumption DEF TransfersInv, Setup
<1>2. ASSUME NEW c \in Callers, do_sync_bulk_transfer(c)
      PROVE  ErrorsInv'
  <2>1. \A d \in Callers : pc'[d] \notin {"unlock", "broadcast"} => ~Told(d)'
    BY <1>2, FailingMoves
  <2>2. ASSUME errors' = 0 PROVE \A d \in Callers : d \notin quit' /\ ~Failing(d)'
    <3>1. ~PollFails(c)
      BY <1>1, <2>2 DEF PollFails
    <3>2. errors = 0
      BY <1>2, <2>2, <3>1, FailingMoves
    <3>3. \A d \in Callers : d \notin quit /\ ~Failing(d)
      BY <1>1, <3>2 DEF ErrorsInv
    <3>4. ~Failed(c)
      BY <3>3 DEF Failed, Failing
    <3> QED
      BY <1>2, <3>1, <3>3, <3>4, FailingMoves
  <2> QED
    BY <2>1, <2>2 DEF ErrorsInv, Told
<1>3. ASSUME NEW o \in Openers, libusb_open(o)
      PROVE  ErrorsInv'
  <2>1. /\ UNCHANGED <<quit, errors>> /\ \A d \in Callers : found'[d] = found[d]
        /\ \A d \in Callers : Stays(d)
    BY <1>1, <1>3, OpenerMoves, UsbEventsAssumption DEF Threads
  <2>2. \A d \in Callers : /\ pc'[d] \in {"unlock", "broadcast"} <=> pc[d] \in {"unlock", "broadcast"}
                           /\ pc'[d] = "failed" => pc[d] = "failed"
    BY <2>1 DEF Stays
  <2> QED
    BY <1>1, <2>1, <2>2 DEF ErrorsInv, Failing
<1>4. ASSUME Tick \/ \E c \in Callers : Answer(c), UNCHANGED setup
      PROVE  ErrorsInv'
  <2>1. UNCHANGED <<pc, found, quit, errors>>
    BY <1>1, <1>4, OtherMoves DEF local
  <2> QED
    BY <1>1, <2>1 DEF ErrorsInv, Failing
<1> QED
  BY <1>2, <1>3, <1>4 DEF Next

\* What is freed after no more than one error.
FreedOnly(d) ==
  /\ pc[d] = "done" /\ ~Listed(d, flying) /\ urb[d] = "none"
  /\ \A t \in Threads : pc[t] \in {"complete", "callback"} => cur[t] # d

\* Nothing comes back to a freed transfer.
LEMMA FreedQuiet ==
  ASSUME AtInv, LifeInv, NEW d \in Callers, FreedOnly(d), pc'[d] = pc[d],
         Listed(d, flying') => Listed(d, flying) \/ pc[d] # "done",
         urb[d] = "none" => urb'[d] = "none",
         \A t \in Threads : pc'[t] \in {"complete", "callback"} =>
            \/ pc[t] \in {"complete", "callback"} /\ cur'[t] = cur[t]
            \/ urb[cur'[t]] # "none"
  PROVE  FreedOnly(d)'
BY DEF FreedOnly

\* A caller comes to the completion of a transfer only from the kernel's answer.
LEMMA Completes ==
  ASSUME IInv, NEW c \in Callers, do_sync_bulk_transfer(c)
  PROVE  /\ pc'[c] \in {"complete", "callback"} =>
              \/ pc[c] \in {"complete", "callback"} /\ cur'[c] = cur[c]
              \/ urb[cur'[c]] # "none"
         /\ \A u \in Threads \ {c} : cur'[u] = cur[u]
         /\ \A d \in Callers : urb[d] = "none" /\ pc[d] = "done" => urb'[d] = "none"
         /\ \A d \in Callers : Listed(d, flying') => Listed(d, flying) \/ pc[d] # "done"
<1>1. PlacesInv /\ TransfersInv /\ ThreadsInv
  BY DEF IInv, TypeInv
<1>2. c \in Threads /\ c \notin Openers
  BY UsbEventsAssumption DEF Threads
<1>3. pc[c] \in CallerPlaces /\ pc \in [Threads -> CallerPlaces \cup OpenerPlaces]
  BY <1>1 DEF PlacesInv
<1> USE DEF local, transfers
<1>4. CASE Add(c)
  <2>1. UNCHANGED <<cur, urb>> /\ pc'[c] = "backend" /\ pc[c] = "submit"
    BY <1>2, <1>3, <1>4 DEF Add, Go
  <2>2. \A d : Listed(d, flying') <=> Listed(d, flying) \/ d = c
    BY <1>4, ListMoves
  <2> QED
    BY <2>1, <2>2
<1>5. CASE Submit(c)
  <2>1. UNCHANGED <<cur, flying>> /\ pc'[c] \notin {"complete", "callback"} /\ pc[c] = "backend"
    BY <1>2, <1>3, <1>5 DEF Submit, Go
  <2>2. \A d \in Callers \ {c} : urb'[d] = urb[d]
    BY <1>1, <1>5 DEF Submit, TransfersInv
  <2> QED
    BY <2>1, <2>2
<1>6. CASE Del(c)
  <2>1. UNCHANGED <<cur, urb>> /\ pc'[c] = "done"
    BY <1>2, <1>3, <1>6 DEF Del, Go
  <2>2. \A d : Listed(d, flying') <=> Listed(d, flying) /\ d # c
    BY <1>6, ListMoves
  <2> QED
    BY <2>1, <2>2
<1>7. CASE Arm(c) \/ Loop(c) \/ ReadNext(c) \/ libusb_wait_for_event(c) \/ UnlockEvents(c)
  <2>1. UNCHANGED <<cur, urb, flying>> /\ pc'[c] \notin {"complete", "callback"}
    BY <1>2, <1>3, <1>7 DEF Arm, Loop, ReadNext, libusb_wait_for_event, Check, Woken,
         WaitTimeout, UnlockEvents, Go
  <2> QED
    BY <2>1
<1>8. CASE FindNext(c)
  <2>1. UNCHANGED <<urb, flying>> /\ pc'[c] \notin {"complete", "callback"}
    BY <1>2, <1>3, <1>8 DEF FindNext, Go
  <2>2. \A u \in Threads \ {c} : cur'[u] = cur[u]
    BY <1>1, <1>2, <1>8 DEF FindNext, ThreadsInv
  <2> QED
    BY <2>1, <2>2
<1>9. CASE libusb_try_lock_events(c) \/ Poll(c) \/ PollFails(c) \/ Disarm(c) \/ LockFlying(c)
  <2>1. UNCHANGED <<cur, urb, flying>> /\ pc'[c] \notin {"complete", "callback"}
    BY <1>2, <1>3, <1>9 DEF libusb_try_lock_events, Poll, PollFails, Disarm, LockFlying, Go
  <2> QED
    BY <2>1
<1>10. CASE handle_timeouts_locked(c)
  <2>1. UNCHANGED <<urb, flying>> /\ pc'[c] \notin {"complete", "callback"}
    BY <1>2, <1>3, <1>10 DEF handle_timeouts_locked, Go
  <2>2. \A u \in Threads \ {c} : cur'[u] = cur[u]
    BY <1>1, <1>2, <1>10 DEF handle_timeouts_locked, ThreadsInv
  <2> QED
    BY <2>1, <2>2
<1>11. CASE Cancel(c) \/ Failed(c)
  <2>1. UNCHANGED <<cur, flying>> /\ pc'[c] \notin {"complete", "callback"}
    BY <1>2, <1>3, <1>11 DEF Cancel, Failed, Go
  <2>2. \A d \in Callers : urb[d] = "none" => urb'[d] = "none"
    BY <1>1, <1>11 DEF Cancel, Failed, Killed, TransfersInv
  <2> QED
    BY <2>1, <2>2
<1>12. CASE Reap(c)
  <2>1. UNCHANGED flying /\ \A d \in Callers : urb[d] = "none" => urb'[d] = "none"
    BY <1>1, <1>12 DEF Reap, TransfersInv
  <2>2. \A u \in Threads \ {c} : cur'[u] = cur[u]
    BY <1>1, <1>2, <1>12 DEF Reap, ThreadsInv
  <2>3. pc'[c] = "complete" => urb[cur'[c]] # "none"
    BY <1>1, <1>2, <1>3, <1>12 DEF Reap, Go, ThreadsInv
  <2>4. pc'[c] # "callback"
    BY <1>2, <1>3, <1>12 DEF Reap, Go
  <2> QED
    BY <2>1, <2>2, <2>3, <2>4
<1>13. CASE Complete(c)
  <2>1. UNCHANGED <<cur, urb>> /\ pc[c] = "complete"
    BY <1>13 DEF Complete
  <2>2. \A d : Listed(d, flying') <=> Listed(d, flying) /\ d # cur[c]
    BY <1>13, ListMoves
  <2> QED
    BY <2>1, <2>2
<1>14. CASE Callback(c)
  <2>1. UNCHANGED <<cur, urb, flying>> /\ pc'[c] = "notify"
    BY <1>2, <1>3, <1>14 DEF Callback, Go
  <2> QED
    BY <2>1
<1>15. CASE Notify(c) \/ Broadcast(c)
  <2>1. UNCHANGED <<urb, flying>> /\ \A u \in Threads \ {c} : cur'[u] = cur[u]
    BY <1>1, <1>2, <1>15 DEF Notify, Broadcast, ThreadsInv
  <2>2. AfterUnlock(c) \in {"failed", "loop"}
    BY <1>2 DEF AfterUnlock
  <2>3. pc'[c] \in {"reap", "failed", "loop"}
    BY <1>1, <1>2, <1>15, <2>2, Wakes DEF Notify, Broadcast, CallerPlaces
  <2> QED
    BY <2>1, <2>3
<1> QED
  BY <1>4, <1>5, <1>6, <1>7, <1>8, <1>9, <1>10, <1>11, <1>12, <1>13, <1>14, <1>15
  DEF do_sync_bulk_transfer, libusb_submit_transfer, get_next_timeout, handle_events,
      handle_timeouts, libusb_unlock_events, usbi_handle_transfer_completion

\* After no more than one error, what is freed is left alone.
LEMMA FreedKept ==
  ASSUME IInv, Next
  PROVE  FreedInv'
<1>1. /\ PlacesInv /\ TransfersInv /\ ThreadsInv /\ TypeInv /\ ErrorsInv /\ LifeInv /\ AtInv
      /\ FreedInv
  BY DEF IInv, TypeInv
<1>2. errors \in Nat
  BY <1>1, UsbEventsAssumption DEF TransfersInv, Setup
<1>3. FreedInv <=> (errors <= 1 => (\A d \in quit : ~Failing(d)) /\ \A d \in freed : FreedOnly(d))
  BY DEF FreedInv, FreedOnly
<1>4. SUFFICES ASSUME errors' <= 1
               PROVE  (\A d \in quit' : ~Failing(d)') /\ \A d \in freed' : FreedOnly(d)'
  BY DEF FreedInv, FreedOnly
<1>5. ASSUME NEW c \in Callers, do_sync_bulk_transfer(c)
      PROVE  (\A d \in quit' : ~Failing(d)') /\ \A d \in freed' : FreedOnly(d)'
  <2>0. c \in Threads /\ Callers \subseteq Threads /\ c \notin Openers
    BY UsbEventsAssumption DEF Threads
  <2>1. pc[c] \in CallerPlaces /\ pc \in [Threads -> CallerPlaces \cup OpenerPlaces]
    BY <1>1 DEF PlacesInv
  <2>2. \A u \in Threads \ {c} : Stays(u)
    BY <1>1, <1>5, <2>0, CallerMoves
  <2>3. errors <= 1 /\ (PollFails(c) => errors = 0)
    <3>1. CASE PollFails(c)
      <4>1. errors' = errors + 1
        BY <3>1 DEF PollFails
      <4> QED
        BY <1>2, <1>4, <4>1
    <3>2. CASE ~PollFails(c)
      BY <1>4, <1>5, <3>2, FailingMoves
    <3> QED
      BY <3>1, <3>2
  <2>4. (\A d \in quit : ~Failing(d)) /\ \A d \in freed : FreedOnly(d)
    BY <1>1, <1>3, <2>3
  <2>5. ASSUME NEW d \in quit' PROVE ~Failing(d)'
    <3>1. CASE d \in quit
      <4>1. d \in Callers /\ ~Failing(d)
        BY <1>1, <2>4, <3>1 DEF TransfersInv
      <4>2. ~PollFails(c)
        BY <1>1, <2>3, <3>1, <4>1 DEF ErrorsInv
      <4> QED
        BY <1>5, <4>1, <4>2, FailingMoves
    <3>2. CASE d \notin quit
      <4>1. d = c /\ Failed(c) /\ c \notin quit
        BY <1>5, <2>5, <3>2, FailingMoves
      <4>2. UNCHANGED found /\ pc'[c] = "loop" /\ pc[c] = "failed"
        BY <2>0, <2>1, <4>1 DEF Failed, Go
      <4>3. "io" \notin found[c] /\ "interrupted" \notin found[c]
        BY <1>1, <4>2 DEF ErrorsInv
      <4> QED
        BY <4>1, <4>2, <4>3 DEF Failing
    <3> QED
      BY <3>1, <3>2
  <2>6. pc[c] # "done"
    BY <1>5 DEF do_sync_bulk_transfer, libusb_submit_transfer, Add, Submit, Arm, Del, Loop,
         get_next_timeout, FindNext, ReadNext, libusb_try_lock_events,
         libusb_wait_for_event, Check, Woken, WaitTimeout,
         handle_events, Poll, PollFails, Disarm, Reap,
         usbi_handle_transfer_completion, Complete, Callback, Notify,
         handle_timeouts, LockFlying, handle_timeouts_locked, Cancel,
         libusb_unlock_events, UnlockEvents, Broadcast, Failed
  <2>7. ASSUME NEW d \in freed PROVE FreedOnly(d)'
    <3>1. d \in Callers /\ FreedOnly(d) /\ pc[d] = "done"
      BY <1>1, <2>4 DEF TransfersInv, FreedOnly
    <3>2. pc'[d] = pc[d]
      BY <2>0, <2>2, <2>6, <3>1 DEF Stays
    <3>3. \A t \in Threads : pc'[t] \in {"complete", "callback"} =>
            \/ pc[t] \in {"complete", "callback"} /\ cur'[t] = cur[t]
            \/ urb[cur'[t]] # "none"
      <4>1. \A u \in Threads \ {c} : pc'[u] \in {"complete", "callback"} => pc'[u] = pc[u]
        BY <2>2 DEF Stays
      <4> QED
        BY <1>5, <4>1, Completes
    <3>4. /\ urb[d] = "none" => urb'[d] = "none"
          /\ Listed(d, flying') => Listed(d, flying) \/ pc[d] # "done"
      BY <1>5, <3>1, Completes
    <3> QED
      BY <1>1, <3>1, <3>2, <3>3, <3>4, FreedQuiet
  <2>8. ASSUME c \in freed', c \notin freed PROVE FreedOnly(c)'
    <3>1. Del(c) \/ (Loop(c) /\ Completed(c)) \/ (Failed(c) /\ c \in quit)
      BY <1>5, <2>8 DEF do_sync_bulk_transfer, libusb_submit_transfer, Add, Submit, Arm, Loop,
           get_next_timeout, FindNext, ReadNext, libusb_try_lock_events,
           libusb_wait_for_event, Check, Woken, WaitTimeout,
           handle_events, Poll, PollFails, Disarm, Reap,
           usbi_handle_transfer_completion, Complete, Callback, Notify,
           handle_timeouts, LockFlying, handle_timeouts_locked, Cancel,
           libusb_unlock_events, UnlockEvents, Broadcast, Failed, transfers
    <3>2. ~(Failed(c) /\ c \in quit)
      BY <2>4 DEF Failed, Failing
    <3>3. CASE Del(c)
      <4>1. /\ UNCHANGED <<urb, cur>> /\ pc[c] = "del" /\ pc'[c] = "done"
        BY <2>0, <2>1, <3>3 DEF Del, Go, local
      <4>2. urb[c] = "none" /\ ~Listed(c, flying')
        BY <1>1, <3>3, <4>1, ListMoves DEF LifeInv
      <4>3. \A t \in Threads : pc[t] \in {"complete", "callback"} => cur[t] # c
        BY <1>1, <4>1 DEF AtInv
      <4>4. \A t \in Threads : pc'[t] \in {"complete", "callback"} => pc'[t] = pc[t]
        BY <2>2, <4>1 DEF Stays
      <4> QED
        BY <4>1, <4>2, <4>3, <4>4 DEF FreedOnly
    <3>4. CASE Loop(c) /\ Completed(c)
      <4>1. UNCHANGED <<urb, cur, flying>> /\ pc'[c] = "done" /\ status[c] # "none"
        BY <2>0, <2>1, <3>4 DEF Loop, Completed, Go
      <4>2. urb[c] = "none" /\ ~Listed(c, flying)
        BY <1>1, <4>1 DEF LifeInv
      <4>3. \A t \in Threads : pc[t] \in {"complete", "callback"} => cur[t] # c
        BY <1>1, <4>1 DEF AtInv
      <4>4. \A t \in Threads : pc'[t] \in {"complete", "callback"} => pc'[t] = pc[t]
        BY <2>2, <4>1 DEF Stays
      <4> QED
        BY <4>1, <4>2, <4>3, <4>4 DEF FreedOnly
    <3> QED
      BY <3>1, <3>2, <3>3, <3>4
  <2>9. freed' \subseteq freed \cup {c}
    BY <1>5 DEF do_sync_bulk_transfer, libusb_submit_transfer, Add, Submit, Arm, Del, Loop,
         get_next_timeout, FindNext, ReadNext, libusb_try_lock_events,
         libusb_wait_for_event, Check, Woken, WaitTimeout,
         handle_events, Poll, PollFails, Disarm, Reap,
         usbi_handle_transfer_completion, Complete, Callback, Notify,
         handle_timeouts, LockFlying, handle_timeouts_locked, Cancel,
         libusb_unlock_events, UnlockEvents, Broadcast, Failed, transfers
  <2> QED
    BY <2>5, <2>7, <2>8, <2>9
<1>6. ASSUME NEW o \in Openers, libusb_open(o)
      PROVE  (\A d \in quit' : ~Failing(d)') /\ \A d \in freed' : FreedOnly(d)'
  <2>1. /\ UNCHANGED <<quit, errors, freed, flying, urb, cur>>
        /\ \A d \in Callers : found'[d] = found[d]
        /\ \A u \in Threads \ {o} : Stays(u)
        /\ PlacesInv'
    BY <1>1, <1>6, OpenerMoves DEF transfers
  <2>2. o \notin Callers /\ Callers \subseteq Threads
    BY UsbEventsAssumption DEF Threads
  <2>3. (\A d \in quit : ~Failing(d)) /\ \A d \in freed : FreedOnly(d)
    BY <1>1, <1>3, <1>4, <2>1
  <2>4. ASSUME NEW d \in quit PROVE ~Failing(d)'
    <3>1. d \in Callers /\ ~Failing(d)
      BY <1>1, <2>3 DEF TransfersInv
    <3>2. Stays(d)
      BY <2>1, <2>2, <3>1
    <3> QED
      BY <2>1, <3>1, <3>2 DEF Failing, Stays
  <2>5. ASSUME NEW d \in freed PROVE FreedOnly(d)'
    <3>1. d \in Callers /\ FreedOnly(d) /\ pc[d] = "done"
      BY <1>1, <2>3 DEF TransfersInv, FreedOnly
    <3>2. pc'[d] = pc[d]
      BY <2>1, <2>2, <3>1 DEF Stays
    <3>3. pc'[o] \notin {"complete", "callback"}
      BY <2>1 DEF PlacesInv, OpenerPlaces
    <3>4. \A t \in Threads : pc'[t] \in {"complete", "callback"} => pc'[t] = pc[t]
      BY <2>1, <3>3 DEF Stays
    <3> QED
      BY <1>1, <2>1, <3>1, <3>2, <3>4, FreedQuiet
  <2> QED
    BY <2>1, <2>4, <2>5
<1>7. ASSUME Tick \/ \E c \in Callers : Answer(c), UNCHANGED setup
      PROVE  (\A d \in quit' : ~Failing(d)') /\ \A d \in freed' : FreedOnly(d)'
  <2>1. /\ UNCHANGED <<pc, found, quit, errors, freed, flying, cur>>
        /\ \A d \in Callers : urb[d] = "none" => urb'[d] = "none"
    BY <1>1, <1>7, OtherMoves DEF local
  <2>2. (\A d \in quit : ~Failing(d)) /\ \A d \in freed : FreedOnly(d)
    BY <1>1, <1>3, <1>4, <2>1
  <2>3. freed \subseteq Callers
    BY <1>1 DEF TransfersInv
  <2> QED
    BY <2>1, <2>2, <2>3 DEF Failing, FreedOnly
<1> QED
  BY <1>5, <1>6, <1>7 DEF Next

-----------------------------------------------------------------------------
\* The steps of an opener: where it goes, and what it does to the shared counts.
LEMMA OpenerSteps ==
  ASSUME IInv, NEW o \in Openers, libusb_open(o)
  PROVE  \/ /\ pc[o] = "open" /\ pc'[o] = "modify" /\ fds' = fds \cup {o}
            /\ UNCHANGED <<modify, pipe, job>>
         \/ /\ pc[o] = "modify" /\ pc'[o] = "lock_events" /\ modify' = modify + 1
            /\ pipe' = pipe + 1 /\ UNCHANGED <<fds, job>>
         \/ /\ pc[o] = "lock_events" /\ pc'[o] = "read" /\ events = None
            /\ UNCHANGED <<modify, pipe, fds, job>>
         \/ /\ pc[o] = "read" /\ pc'[o] = "do_close" /\ job[o] = "close" /\ pipe' = pipe - 1
            /\ UNCHANGED <<modify, fds, job>>
         \/ /\ pc[o] = "read" /\ pc'[o] = "unlock" /\ job[o] = "open" /\ pipe' = pipe - 1
            /\ modify' = modify - 1 /\ UNCHANGED <<fds, job>>
         \/ /\ pc[o] = "do_close" /\ pc'[o] = "remove" /\ UNCHANGED <<modify, pipe, fds, job>>
         \/ /\ pc[o] = "remove" /\ pc'[o] = "unlock" /\ fds' = fds \ {o} /\ modify' = modify - 1
            /\ UNCHANGED <<pipe, job>>
         \/ /\ pc[o] = "unlock" /\ pc'[o] = "broadcast" /\ UNCHANGED <<modify, pipe, fds, job>>
         \/ /\ pc[o] = "broadcast" /\ pc'[o] = (IF job[o] = "open" THEN "modify" ELSE "done")
            /\ job' = [job EXCEPT ![o] = "close"] /\ UNCHANGED <<modify, pipe, fds>>
<1>1. /\ PlacesInv /\ ThreadsInv /\ o \in Threads /\ o \notin Callers
      /\ pc \in [Threads -> CallerPlaces \cup OpenerPlaces]
  BY UsbEventsAssumption DEF IInv, TypeInv, PlacesInv, Threads
<1> USE DEF handling, local
<1>2. CASE Open(o)
  BY <1>1, <1>2 DEF Open, Go
<1>3. CASE Modify(o)
  BY <1>1, <1>3 DEF Modify, Go
<1>4. CASE libusb_lock_events(o)
  BY <1>1, <1>4 DEF libusb_lock_events, LockEvents, Go
<1>5. CASE ReadPipe(o)
  <2>1. job[o] \in {"open", "close"}
    BY <1>1 DEF ThreadsInv
  <2> QED
    BY <1>1, <1>5, <2>1 DEF ReadPipe, Go
<1>6. CASE DoClose(o)
  <2>1. pc'[o] = "remove"
    BY <1>1, <1>6, Wakes DEF DoClose, OpenerPlaces
  <2> QED
    BY <1>6, <2>1 DEF DoClose
<1>7. CASE Detach(o)
  BY <1>1, <1>7 DEF Detach, Go
<1>8. CASE UnlockEvents(o)
  BY <1>1, <1>8 DEF UnlockEvents, Go
<1>9. CASE Broadcast(o)
  <2>1. AfterUnlock(o) = IF job[o] = "open" THEN "modify" ELSE "done"
    BY DEF AfterUnlock
  <2>2. AfterUnlock(o) \in OpenerPlaces /\ AfterUnlock(o) # "wait"
    BY <2>1 DEF OpenerPlaces
  <2>3. pc'[o] = AfterUnlock(o)
    BY <1>1, <1>9, <2>2, Wakes DEF Broadcast
  <2>4. /\ pc[o] = "broadcast" /\ job' = [job EXCEPT ![o] = "close"]
        /\ UNCHANGED <<modify, pipe, fds>>
    BY <1>9 DEF Broadcast
  <2> QED
    BY <2>1, <2>3, <2>4
<1> QED
  BY <1>2, <1>3, <1>4, <1>5, <1>6, <1>7, <1>8, <1>9 DEF libusb_open, libusb_unlock_events

\* The counts are those of the openers that are between raising and lowering them.
LEMMA CountsKept ==
  ASSUME IInv, Next
  PROVE  CountInv'
<1>1. PlacesInv /\ ThreadsInv /\ TypeInv /\ CountInv
  BY DEF IInv, TypeInv
<1>2. ASSUME \A o \in Openers : pc'[o] = pc[o], UNCHANGED <<modify, pipe>>
      PROVE  CountInv'
  <2>1. Waking' = Waking /\ Modifying' = Modifying
    BY <1>2 DEF Waking, Modifying
  <2> QED
    BY <1>1, <1>2, <2>1 DEF CountInv
<1>3. ASSUME NEW c \in Callers, do_sync_bulk_transfer(c)
      PROVE  CountInv'
  BY <1>1, <1>2, <1>3, CallerMoves
<1>4. ASSUME NEW o \in Openers, libusb_open(o)
      PROVE  CountInv'
  <2>1. \A p \in Openers \ {o} : pc'[p] = pc[p]
    BY <1>1, <1>4, OpenerMoves
  <2>2. /\ pc'[o] \in {"lock_events", "read"} => Waking' = Waking \cup {o}
        /\ pc'[o] \notin {"lock_events", "read"} => Waking' = Waking \ {o}
    BY <2>1 DEF Waking
  <2>3. /\ pc'[o] \in {"lock_events", "read", "do_close", "remove"} =>
             Modifying' = Modifying \cup {o}
        /\ pc'[o] \notin {"lock_events", "read", "do_close", "remove"} =>
             Modifying' = Modifying \ {o}
    BY <2>1 DEF Modifying
  <2>4. /\ o \in Waking <=> pc[o] \in {"lock_events", "read"}
        /\ o \in Modifying <=> pc[o] \in {"lock_events", "read", "do_close", "remove"}
    BY DEF Waking, Modifying
  <2>5. IsFiniteSet(Modifying) /\ IsFiniteSet(Waking)
    <3>1. Waking \subseteq Modifying
      BY DEF Waking, Modifying
    <3> QED
      BY <1>1, <3>1, FS_Subset DEF CountInv
  <2>6. pipe = Cardinality(Waking) /\ modify = Cardinality(Modifying)
    BY <1>1 DEF CountInv
  <2>7. /\ IsFiniteSet(Modifying \cup {o}) /\ IsFiniteSet(Modifying \ {o})
        /\ o \notin Modifying => Cardinality(Modifying \cup {o}) = Cardinality(Modifying) + 1
        /\ o \in Modifying => Cardinality(Modifying \cup {o}) = Cardinality(Modifying)
        /\ o \in Modifying => Cardinality(Modifying \ {o}) = Cardinality(Modifying) - 1
        /\ o \notin Modifying => Cardinality(Modifying \ {o}) = Cardinality(Modifying)
    BY <2>5, FS_AddElement, FS_RemoveElement
  <2>8. /\ o \notin Waking => Cardinality(Waking \cup {o}) = Cardinality(Waking) + 1
        /\ o \in Waking => Cardinality(Waking \cup {o}) = Cardinality(Waking)
        /\ o \in Waking => Cardinality(Waking \ {o}) = Cardinality(Waking) - 1
        /\ o \notin Waking => Cardinality(Waking \ {o}) = Cardinality(Waking)
    BY <2>5, FS_AddElement, FS_RemoveElement
  <2>9. IsFiniteSet(Modifying')
    BY <2>3, <2>7, Zenon
  <2>10. pipe' = Cardinality(Waking')
    BY <1>4, <2>2, <2>4, <2>6, <2>8, OpenerSteps
  <2>11. modify' = Cardinality(Modifying')
    BY <1>4, <2>3, <2>4, <2>6, <2>7, OpenerSteps
  <2> QED
    BY <2>9, <2>10, <2>11 DEF CountInv
<1>5. ASSUME Tick \/ \E c \in Callers : Answer(c), UNCHANGED setup
      PROVE  CountInv'
  BY <1>1, <1>2, <1>5, OtherMoves DEF handling
<1> QED
  BY <1>3, <1>4, <1>5 DEF Next

\* The fds are those of the devices that are open.
LEMMA FdsKept ==
  ASSUME IInv, Next
  PROVE  FdsInv'
<1>1. PlacesInv /\ ThreadsInv /\ TypeInv /\ FdsInv
  BY DEF IInv, TypeInv
<1>2. ASSUME NEW c \in Callers, do_sync_bulk_transfer(c)
      PROVE  FdsInv'
  <2>1. (\A o \in Openers : pc'[o] = pc[o]) /\ UNCHANGED <<fds, job>>
    BY <1>1, <1>2, CallerMoves
  <2> QED
    BY <1>1, <2>1 DEF FdsInv
<1>3. ASSUME NEW o \in Openers, libusb_open(o)
      PROVE  FdsInv'
  <2>1. \A p \in Openers \ {o} : pc'[p] = pc[p]
    BY <1>1, <1>3, OpenerMoves
  <2>2. \A p \in Openers \ {o} : job'[p] = job[p] /\ (p \in fds' <=> p \in fds)
    BY <1>1, <1>3, OpenerSteps DEF ThreadsInv
  <2>3. /\ pc'[o] = "open" => job'[o] = "open"
        /\ pc'[o] \in {"do_close", "remove"} => job'[o] = "close"
        /\ o \in fds' <=>
             \/ /\ job'[o] = "open"
                /\ pc'[o] \in {"modify", "lock_events", "read", "unlock", "broadcast"}
             \/ /\ job'[o] = "close"
                /\ pc'[o] \in {"modify", "lock_events", "read", "do_close", "remove"}
    <3>1. /\ job \in [Openers -> {"open", "close"}]
          /\ pc[o] = "open" => job[o] = "open"
          /\ pc[o] \in {"do_close", "remove"} => job[o] = "close"
          /\ o \in fds <=>
               \/ /\ job[o] = "open"
                  /\ pc[o] \in {"modify", "lock_events", "read", "unlock", "broadcast"}
               \/ /\ job[o] = "close"
                  /\ pc[o] \in {"modify", "lock_events", "read", "do_close", "remove"}
      BY <1>1 DEF FdsInv, ThreadsInv
    <3>2. job[o] \in {"open", "close"}
      BY <3>1
    <3>3. job'[o] = IF pc[o] = "broadcast" THEN "close" ELSE job[o]
      BY <1>3, <3>1, OpenerSteps
    <3>4. o \in fds' <=> pc[o] = "open" \/ (o \in fds /\ pc[o] # "remove")
      BY <1>3, OpenerSteps
    <3>5. \/ pc[o] = "open" /\ pc'[o] = "modify"
          \/ pc[o] = "modify" /\ pc'[o] = "lock_events"
          \/ pc[o] = "lock_events" /\ pc'[o] = "read"
          \/ pc[o] = "read" /\ pc'[o] = "do_close" /\ job[o] = "close"
          \/ pc[o] = "read" /\ pc'[o] = "unlock" /\ job[o] = "open"
          \/ pc[o] = "do_close" /\ pc'[o] = "remove"
          \/ pc[o] = "remove" /\ pc'[o] = "unlock"
          \/ pc[o] = "unlock" /\ pc'[o] = "broadcast"
          \/ pc[o] = "broadcast" /\ pc'[o] = (IF job[o] = "open" THEN "modify" ELSE "done")
      BY <1>3, OpenerSteps
    <3>6. CASE job[o] = "open"
      <4>1. pc[o] = "broadcast" => o \in fds' /\ job'[o] = "close" /\ pc'[o] = "modify"
        BY <3>1, <3>3, <3>4, <3>5, <3>6
      <4>2. pc[o] # "broadcast" => job'[o] = "open"
        BY <3>3, <3>6
      <4>3. pc[o] # "broadcast" =>
              (o \in fds' <=> pc[o] \in {"open", "modify", "lock_events", "read", "unlock"})
        BY <3>1, <3>4, <3>6
      <4>4. pc[o] # "broadcast" =>
              (pc[o] \in {"open", "modify", "lock_events", "read", "unlock"} <=>
                 pc'[o] \in {"modify", "lock_events", "read", "unlock", "broadcast"})
        BY <3>1, <3>5, <3>6
      <4>5. pc'[o] \notin {"open", "do_close", "remove"}
        BY <3>1, <3>5, <3>6
      <4> QED
        BY <4>1, <4>2, <4>3, <4>4, <4>5
    <3>7. CASE job[o] = "close"
      <4>1. job'[o] = "close"
        BY <3>3, <3>7
      <4>2. pc[o] # "open"
        BY <3>1, <3>7
      <4>3. o \in fds' <=> pc[o] \in {"modify", "lock_events", "read", "do_close"}
        BY <3>1, <3>4, <3>7
      <4>4. pc[o] \in {"modify", "lock_events", "read", "do_close"} <=>
              pc'[o] \in {"modify", "lock_events", "read", "do_close", "remove"}
        BY <3>5, <3>7, <4>2
      <4> QED
        BY <3>5, <4>1, <4>3, <4>4
    <3> QED
      BY <3>2, <3>6, <3>7
  <2> QED
    BY <1>1, <2>1, <2>2, <2>3 DEF FdsInv
<1>4. ASSUME Tick \/ \E c \in Callers : Answer(c), UNCHANGED setup
      PROVE  FdsInv'
  <2>1. UNCHANGED <<pc, fds, job>>
    BY <1>1, <1>4, OtherMoves DEF handling, local
  <2> QED
    BY <1>1, <2>1 DEF FdsInv
<1> QED
  BY <1>2, <1>3, <1>4 DEF Next

\* Who polls, polls the fds there are.
LEMMA PolledKept ==
  ASSUME IInv, Next
  PROVE  PolledInv'
<1>1. /\ PlacesInv /\ ThreadsInv /\ TransfersInv /\ TypeInv /\ FdsInv /\ PolledInv /\ LockInv
      /\ CountInv
  BY DEF IInv, TypeInv
<1>2. ASSUME NEW c \in Callers, do_sync_bulk_transfer(c)
      PROVE  PolledInv'
  <2>0. c \in Threads /\ Callers \subseteq Threads
    BY DEF Threads
  <2>1. pc[c] \in CallerPlaces /\ pc \in [Threads -> CallerPlaces \cup OpenerPlaces]
    BY <1>1 DEF PlacesInv
  <2>2. /\ \A o \in Openers : pc'[o] = pc[o]
        /\ UNCHANGED <<fds, job>>
        /\ \A u \in Threads \ {c} : Stays(u)
    BY <1>1, <1>2, CallerMoves
  <2>3. \A d \in Callers \ {c} : polled'[d] = polled[d]
    <3>1. \/ polled' = polled
          \/ polled' = [polled EXCEPT ![c] = fds]
          \/ polled' = [polled EXCEPT ![c] = {}]
      BY <1>2 DEF do_sync_bulk_transfer, libusb_submit_transfer, Add, Submit, Arm, Del, Loop,
           get_next_timeout, FindNext, ReadNext, libusb_try_lock_events,
           libusb_wait_for_event, Check, Woken, WaitTimeout,
           handle_events, Poll, PollFails, Disarm, Reap,
           usbi_handle_transfer_completion, Complete, Callback, Notify,
           handle_timeouts, LockFlying, handle_timeouts_locked, Cancel,
           libusb_unlock_events, UnlockEvents, Broadcast, Failed, local
    <3> QED
      BY <1>1, <2>0, <3>1 DEF ThreadsInv
  <2>4. pc'[c] = "poll" => polled'[c] = fds
    <3>1. ASSUME pc'[c] = "poll" PROVE libusb_try_lock_events(c)
      <4>1. ~(Notify(c) \/ Broadcast(c))
        <5>1. AfterUnlock(c) \in {"failed", "loop"}
          BY UsbEventsAssumption DEF AfterUnlock
        <5>2. Notify(c) \/ Broadcast(c) => pc'[c] \in {"reap", "failed", "loop"}
          BY <1>1, <2>0, <5>1, Wakes, UsbEventsAssumption DEF Notify, Broadcast, CallerPlaces
        <5> QED
          BY <3>1, <5>2
      <4> QED
        BY <1>2, <2>0, <2>1, <3>1, <4>1
        DEF do_sync_bulk_transfer, libusb_submit_transfer, Add, Submit, Arm, Del, Loop,
           get_next_timeout, FindNext, ReadNext,
           libusb_wait_for_event, Check, Woken, WaitTimeout,
           handle_events, Poll, PollFails, Disarm, Reap,
           usbi_handle_transfer_completion, Complete, Callback,
           handle_timeouts, LockFlying, handle_timeouts_locked, Cancel,
           libusb_unlock_events, UnlockEvents, Failed, Go
    <3>2. ASSUME libusb_try_lock_events(c), pc'[c] = "poll" PROVE polled'[c] = fds
      BY <1>1, <2>0, <2>1, <3>2 DEF libusb_try_lock_events, Go, ThreadsInv
    <3> QED
      BY <3>1, <3>2
  <2>5. \A d \in Callers \ {c} : pc'[d] = "poll" => pc[d] = "poll"
    BY <2>0, <2>2 DEF Stays
  <2>6. fds \subseteq Openers
    BY <1>1 DEF TransfersInv
  <2> QED
    BY <1>1, <2>2, <2>3, <2>4, <2>5, <2>6 DEF PolledInv
<1>3. ASSUME NEW o \in Openers, libusb_open(o)
      PROVE  PolledInv'
  <2>1. SUFFICES ASSUME NEW c \in Callers, pc'[c] = "poll"
                 PROVE  /\ polled'[c] \subseteq fds'
                        /\ \A p \in fds' \ polled'[c] :
                             job'[p] = "open" /\ pc'[p] \in {"modify", "lock_events"}
    BY DEF PolledInv
  <2>2. /\ \A p \in Openers \ {o} : pc'[p] = pc[p]
        /\ polled'[c] = polled[c] /\ pc[c] = "poll"
    BY <1>1, <1>3, <2>1, OpenerMoves, UsbEventsAssumption DEF Threads, Stays
  <2>3. events = c /\ events # None /\ events # o
    BY <1>1, <2>2, UsbEventsAssumption DEF LockInv, Threads
  <2>4. pc[o] \notin {"lock_events", "read", "do_close", "remove", "unlock"} \/ pc[o] = "lock_events"
    BY <1>1, <2>3 DEF LockInv, Threads
  <2>5. /\ polled[c] \subseteq fds /\ fds \subseteq Openers
        /\ \A p \in fds \ polled[c] : job[p] = "open" /\ pc[p] \in {"modify", "lock_events"}
    BY <1>1, <2>2 DEF PolledInv, TransfersInv
  <2>6. CASE pc[o] = "open"
    <3>1. /\ pc'[o] = "modify" /\ fds' = fds \cup {o} /\ UNCHANGED job /\ job[o] = "open"
      BY <1>1, <1>3, <2>6, OpenerSteps DEF FdsInv
    <3> QED
      BY <2>2, <2>5, <3>1
  <2>7. CASE pc[o] = "modify"
    <3>1. /\ pc'[o] = "lock_events" /\ UNCHANGED <<fds, job>>
      BY <1>3, <2>7, OpenerSteps
    <3> QED
      BY <2>2, <2>5, <3>1
  <2>8. CASE pc[o] = "broadcast"
    <3>1. UNCHANGED fds /\ job' = [job EXCEPT ![o] = "close"] /\ job \in [Openers -> {"open", "close"}]
      BY <1>1, <1>3, <2>8, OpenerSteps DEF ThreadsInv
    <3>2. o \notin fds \ polled[c]
      BY <2>5, <2>8
    <3> QED
      BY <2>2, <2>5, <3>1, <3>2
  <2>9. pc[o] \in {"open", "modify", "broadcast"}
    BY <1>3, <2>3, <2>4, OpenerSteps
  <2> QED
    BY <2>6, <2>7, <2>8, <2>9
<1>4. ASSUME Tick \/ \E c \in Callers : Answer(c), UNCHANGED setup
      PROVE  PolledInv'
  <2>1. UNCHANGED <<pc, fds, job, polled>>
    BY <1>1, <1>4, OtherMoves DEF handling, local
  <2> QED
    BY <1>1, <2>1 DEF PolledInv
<1> QED
  BY <1>2, <1>3, <1>4 DEF Next

-----------------------------------------------------------------------------
\* The invariant is inductive.
LEMMA NextKeeps == IInv /\ [Next]_vars => IInv'
<1> SUFFICES ASSUME IInv, [Next]_vars PROVE IInv'
  OBVIOUS
<1>1. CASE Next
  BY <1>1, TypesKept, LocksKept, LifeKept, AtKept, TimedOutKept, ErrorsKept, FreedKept,
     CountsKept, FdsKept, PolledKept DEF IInv
<1>2. CASE UNCHANGED vars
  <2>1. UNCHANGED <<setup, pc, now, flying, fly, tlock, deadline, flags, urb, status, freed,
                    timer, events, active, modify, pipe, fds, polled, found, wake, cur,
                    verdict, quit, job, errors>>
    BY <1>2 DEF vars, transfers, handling, local
  <2>2. TypeInv' /\ ListInv'
    BY <2>1 DEF IInv, TypeInv, PlacesInv, TransfersInv, ThreadsInv, ListInv
  <2>3. LockInv' /\ LifeInv' /\ AtInv'
    BY <2>1 DEF IInv, LockInv, LifeInv, AtInv
  <2>4. TimedOutInv' /\ ErrorsInv' /\ FreedInv'
    BY <2>1 DEF IInv, TimedOutInv, Expired, ErrorsInv, FreedInv, Failing
  <2>5. CountInv' /\ FdsInv' /\ PolledInv'
    BY <2>1 DEF IInv, CountInv, Waking, Modifying, FdsInv, PolledInv
  <2> QED
    BY <2>2, <2>3, <2>4, <2>5 DEF IInv
<1> QED
  BY <1>1, <1>2

\* The invariant holds.
LEMMA Holds == Spec => []IInv
BY InitHolds, NextKeeps, PTL DEF Spec

\* For any callers, openers, timeouts and failures the state is well typed: a
\* transfer is in flying_transfers once at most, and the counts of the openers that
\* interrupt the event handler never go below zero.
THEOREM WellTyped == Spec => []TypeOK
<1>1. IInv => TypeOK
  <2> SUFFICES ASSUME IInv PROVE TypeOK
    OBVIOUS
  <2>1. PlacesInv /\ TransfersInv /\ ThreadsInv /\ ListInv /\ CountInv
    BY DEF IInv, TypeInv
  <2>2. Waking \subseteq Modifying /\ IsFiniteSet(Modifying)
    BY <2>1 DEF Waking, Modifying, CountInv
  <2>3. IsFiniteSet(Waking) /\ Cardinality(Waking) <= Cardinality(Modifying)
    BY <2>2, FS_Subset
  <2>4. Cardinality(Waking) \in Nat /\ Cardinality(Modifying) \in Nat
    BY <2>2, <2>3, FS_CardinalityType
  <2>5. modify \in Nat /\ pipe \in Nat /\ modify >= pipe
    BY <2>1, <2>3, <2>4 DEF CountInv
  <2> QED
    BY <2>1, <2>5 DEF TypeOK, TransfersInv, ListInv, Statuses
<1> QED
  BY <1>1, Holds, PTL

\* Whatever devices are opened and closed meanwhile, by however many threads, no
\* thread is in poll without the fd of a device that is open, or with one of a
\* device that was closed.
THEOREM FdsFresh == Spec => []NoStaleFds
<1>1. IInv => NoStaleFds
  <2> SUFFICES ASSUME IInv, NEW c \in Callers, NEW o \in Openers, pc[c] = "poll"
               PROVE  /\ pc[o] = "done" => o \notin polled[c]
                      /\ job[o] = "close" /\ o \in fds => o \in polled[c] \/ pc[o] = "done"
    BY DEF NoStaleFds
  <2>1. polled[c] \subseteq fds /\ (o \in fds \ polled[c] => job[o] = "open")
    BY DEF IInv, PolledInv
  <2>2. o \in fds => pc[o] # "done"
    BY DEF IInv, FdsInv
  <2> QED
    BY <2>1, <2>2
<1> QED
  BY <1>1, Holds, PTL

\* As long as event handling has failed once at most, a transfer that its caller
\* freed is neither with the kernel nor in the list.  (After a second failure
\* do_sync_bulk_transfer frees a transfer whose cancellation it did not await.)
THEOREM FreedIsIdle == Spec => [](errors <= 1 => FreeNotActive)
<1>1. IInv => (errors <= 1 => FreeNotActive)
  BY DEF IInv, FreedInv, FreeNotActive, Listed
<1> QED
  BY <1>1, Holds, PTL

\* As long as event handling has failed once at most, no thread is at a transfer
\* that its caller has freed.
THEOREM FreedIsLeft == Spec => [](errors <= 1 => NoUseAfterFree)
<1>1. IInv => (errors <= 1 => NoUseAfterFree)
  <2> SUFFICES ASSUME IInv, errors <= 1, NEW c \in Callers,
                      pc[c] \in {"cancel", "complete", "callback"}
               PROVE  cur[c] \notin freed
    BY DEF NoUseAfterFree
  <2>1. c \in Threads
    BY DEF Threads
  <2>2. \A d \in freed : /\ ~Listed(d, flying)
                         /\ \A t \in Threads : pc[t] \in {"complete", "callback"} => cur[t] # d
    BY DEF IInv, FreedInv
  <2>3. pc[c] = "cancel" => Listed(cur[c], flying)
    BY <2>1 DEF IInv, AtInv
  <2> QED
    BY <2>1, <2>2, <2>3
<1> QED
  BY <1>1, Holds, PTL

\* No call meets more than one failure of event handling.
OneFailure == \A s \in Setups : s.errors <= 1

\* Only the callback sets the status of a transfer.
LEMMA StatusMoves ==
  ASSUME IInv, Next
  PROVE  \/ UNCHANGED status
         \/ \E c \in Callers : /\ pc[c] = "callback" /\ UNCHANGED <<now, deadline>>
                               /\ status' = [status EXCEPT ![cur[c]] = verdict[c]]
<1>1. TypeInv /\ PlacesInv /\ ThreadsInv
  BY DEF IInv, TypeInv
<1>2. ASSUME NEW c \in Callers, do_sync_bulk_transfer(c), ~Callback(c)
      PROVE  UNCHANGED status
  BY <1>2 DEF do_sync_bulk_transfer, libusb_submit_transfer, Add, Submit, Arm, Del, Loop,
       get_next_timeout, FindNext, ReadNext, libusb_try_lock_events,
       libusb_wait_for_event, Check, Woken, WaitTimeout,
       handle_events, Poll, PollFails, Disarm, Reap,
       usbi_handle_transfer_completion, Complete, Notify,
       handle_timeouts, LockFlying, handle_timeouts_locked, Cancel,
       libusb_unlock_events, UnlockEvents, Broadcast, Failed, transfers
<1>3. ASSUME NEW c \in Callers, Callback(c)
      PROVE  /\ pc[c] = "callback" /\ UNCHANGED <<now, deadline>>
             /\ status' = [status EXCEPT ![cur[c]] = verdict[c]]
  BY <1>3 DEF Callback
<1>4. ASSUME NEW o \in Openers, libusb_open(o) PROVE UNCHANGED status
  BY <1>1, <1>4, OpenerMoves DEF transfers
<1>5. ASSUME Tick \/ \E c \in Callers : Answer(c), UNCHANGED setup PROVE UNCHANGED status
  BY <1>1, <1>5, OtherMoves
<1> QED
  BY <1>2, <1>3, <1>4, <1>5 DEF Next

\* When event handling fails at most once in a call, every transfer is completed
\* once, before it is freed, and reported as timed out only after its timeout.
THEOREM CompletesOnce == ASSUME OneFailure PROVE Spec => CompletedOnce
<1> DEFINE Once(c) == /\ Completed(c) => status'[c] = status[c]
                      /\ status'[c] # status[c] => c \notin freed
                      /\ status'[c] = "TIMED_OUT" => Expired(c)
<1>1. ASSUME IInv, Next, NEW d \in Callers PROVE Once(d)
  <2>1. AtInv /\ TimedOutInv /\ FreedInv /\ TransfersInv
    BY <1>1 DEF IInv, TypeInv
  <2>2. errors <= 1
    <3>1. setup.errors <= 1 /\ setup.errors \in Nat /\ errors \in 0 .. setup.errors
      BY <2>1, UsbEventsAssumption DEF TransfersInv, Setup, OneFailure
    <3> QED
      BY <3>1
  <2>3. CASE UNCHANGED status
    BY <2>1, <2>3 DEF TimedOutInv
  <2>4. ASSUME NEW c \in Callers, pc[c] = "callback",
               status' = [status EXCEPT ![cur[c]] = verdict[c]]
        PROVE  Once(d)
    <3>1. c \in Threads
      BY DEF Threads
    <3>2. status[cur[c]] = "none" /\ (verdict[c] = "TIMED_OUT" => Expired(cur[c]))
      BY <2>1, <2>4, <3>1 DEF AtInv, TimedOutInv
    <3>3. d \in freed => cur[c] # d
      BY <2>1, <2>2, <2>4, <3>1 DEF FreedInv
    <3>4. CASE d = cur[c]
      <4>1. status'[d] = verdict[c]
        BY <2>1, <2>4, <3>4 DEF TransfersInv
      <4> QED
        BY <3>2, <3>3, <3>4, <4>1 DEF Completed
    <3>5. CASE d # cur[c]
      <4>1. status'[d] = status[d]
        BY <2>1, <2>4, <3>5 DEF TransfersInv
      <4> QED
        BY <2>1, <4>1 DEF TimedOutInv
    <3> QED
      BY <3>4, <3>5
  <2> QED
    BY <1>1, <2>3, <2>4, StatusMoves
<1>2. IInv /\ [Next]_vars => [\A c \in Callers : Once(c)]_vars
  BY <1>1
<1>3. [][\A c \in Callers : Once(c)]_vars <=> CompletedOnce
  BY DEF CompletedOnce
<1>4. Spec => [][\A c \in Callers : Once(c)]_vars
  <2> HIDE DEF Once
  <2> QED
    BY <1>2, Holds, PTL DEF Spec
<1> QED
  BY <1>3, <1>4, PTL
=============================================================================
