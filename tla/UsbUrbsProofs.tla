---------------------------- MODULE UsbUrbsProofs ----------------------------
(***************************************************************************)
(* Proofs about UsbUrbs: when the user hears of the end of a transfer no URB  *)
(* of it is left with the kernel, for any transfer split into any number of   *)
(* URBs, whatever completes, fails, is refused, cancelled or unplugged.       *)
(*                                                                         *)
(* Two arguments meet.  While nothing went wrong (reap_action is NORMAL) the  *)
(* URBs come back in order, so that the last one is the end; after that the   *)
(* count of retired URBs is right, so that the last one to come back is.      *)
(***************************************************************************)
EXTENDS UsbUrbs, FiniteSetTheorems, SequenceTheorems, TLAPS

\* The transfers this is true of.  What a fold returns cannot be proved: that iso
\* packets make one URB at least is left to the runs.  A stall is not an end of
\* an unchained split (run usbfs_stall), so there it must not happen.
SetupsSound ==
  \A s \in Setups :
    /\ s.type = "iso" => Len(IsoUrbs(s)) \in Nat \ {0}
    /\ s.type = "bulk" /\ "stall" \in s.faults /\ Len(UrbsOf(s)) > 1 =>
         Split(s) /\ "continuation" \in s.caps

States == {"none", "queued", "done", "reaped"}

Ended == {"none", "ok", "short", "cancelled", "gone", "stall", "proto", "overflow"}

Queued(i) == urb[i] = "queued"

\* The URBs whose completion was handled, and those that were not submitted.
Handled == {i \in 1 .. N : urb[i] = "reaped" /\ i # reaped}
Unsent  == {i \in 1 .. N : urb[i] = "none"}

TypeInv ==
  /\ setup \in Setups /\ N \in Nat \ {0}
  /\ urb \in [1 .. N -> States] /\ ended \in [1 .. N -> Ended]
  /\ completed \in Seq(1 .. N) /\ reaped \in 0 .. N /\ retired \in Nat
  /\ pc \in {"submit", "refused", "discard", "remaining", "idle"}
  /\ live \in BOOLEAN /\ present \in BOOLEAN /\ blocked \in BOOLEAN

\* Where submission and discard_urbs are.
PlaceInv ==
  /\ pc = "submit" =>
       /\ at \in 1 .. N /\ retired = 0 /\ action = "NORMAL"
       /\ \A i \in 1 .. N : urb[i] = "none" <=> i >= at
       /\ Handled = {}
  /\ pc = "refused" => at \in 2 .. N /\ action # "NORMAL"
  /\ pc \in {"discard", "remaining"} => down \in 1 .. N /\ at \in down .. N
  /\ pc = "discard" => action # "NORMAL"
  /\ pc = "remaining" /\ action = "NORMAL" => \A i \in 1 .. N : ~Queued(i)
  /\ pc # "idle" => live

\* The list of the kernel has the URBs that are done, each once.
ListInv ==
  /\ \A i \in 1 .. N : urb[i] = "done" <=> \E n \in 1 .. Len(completed) : completed[n] = i
  /\ \A m, n \in 1 .. Len(completed) : completed[m] = completed[n] => m = n
  /\ reaped # 0 => urb[reaped] = "reaped"

\* As long as nothing went wrong URBs are in order in every stage.
OrderInv ==
  action = "NORMAL" =>
    /\ \A i, j \in 1 .. N : i < j =>
         /\ urb[j] = "reaped" => urb[i] = "reaped"
         /\ urb[j] = "done" => urb[i] \in {"done", "reaped"}
         /\ urb[j] = "queued" => urb[i] # "none"
    /\ \A m, n \in 1 .. Len(completed) : m < n => completed[m] < completed[n]
    /\ reaped # 0 => \A j \in 1 .. N : j > reaped => urb[j] # "reaped"

\* The URBs that are retired are those handled and those never submitted.
CountInv ==
  /\ setup.type = "control" => N = 1
  /\ pc # "submit" /\ live =>
       IF setup.type = "control" THEN Unsent = {}
       ELSE retired = Cardinality(Handled) + Cardinality(Unsent)

\* What an unplugged device, and a broken chain, leave with the kernel: nothing.
FaultInv ==
  /\ ~present => \A i \in 1 .. N : ~Queued(i)
  /\ blocked => /\ Continues /\ ~(pc = "submit" /\ at = 1)
                /\ \A i \in 1 .. N : ~Queued(i)
  /\ \A i \in 1 .. N :
       /\ ended[i] = "gone" => ~present
       /\ ended[i] = "stall" => "stall" \in setup.faults /\ (Continues => blocked)
       /\ ended[i] = "overflow" => i = N

EndInv ==
  /\ live <=> report = "none"
  /\ status # "none"
  /\ picked => removed
  /\ removed => ~present /\ reaped = 0

IInv ==
  /\ TypeInv /\ PlaceInv /\ ListInv /\ OrderInv /\ CountInv /\ FaultInv /\ EndInv
  /\ ReportedWhenAllBack
-----------------------------------------------------------------------------
\* The transfer stays what it is.
LEMMA SameTransfer ==
  ASSUME setup' = setup
  PROVE  N' = N /\ Continues' = Continues /\ Urbs' = Urbs
BY DEF N, Urbs, Continues

\* Every transfer is at least one URB, and a control transfer is one.
LEMMA OneUrb ==
  ASSUME SetupsSound, NEW s \in Setups
  PROVE  /\ Len(UrbsOf(s)) \in Nat \ {0}
         /\ s.type = "control" => Len(UrbsOf(s)) = 1
<1>1. s \in Setup /\ s.lengths # <<>> /\ (s.type # "iso" => Len(s.lengths) = 1)
  BY UsbUrbsAssumption
<1>2. CASE s.type = "iso"
  <2>1. UrbsOf(s) = IsoUrbs(s)
    BY <1>2 DEF UrbsOf
  <2> QED
    BY <1>2, <2>1 DEF SetupsSound
<1>3. CASE s.type = "bulk"
  <2> DEFINE size == IF Split(s) THEN MAX_BULK_BUFFER_LENGTH ELSE Length(s)
             pieces == (Length(s) + size - 1) \div size
  <2>1. Length(s) \in Nat \ {0}
    BY <1>1, <1>3 DEF Setup, Length
  <2>2. size \in Nat \ {0}
    BY <2>1, UsbUrbsAssumption
  <2>3. pieces \in Nat \ {0}
    <3> HIDE DEF size
    <3>1. \A l, z \in Nat \ {0} : (l + z - 1) \div z \in Nat \ {0}
      OBVIOUS
    <3> QED
      BY <2>1, <2>2, <3>1
  <2>4. DOMAIN BulkUrbs(s) = 1 .. pieces
    BY DEF BulkUrbs
  <2>5. UrbsOf(s) = [i \in DOMAIN BulkUrbs(s) |-> <<BulkUrbs(s)[i]>>]
    BY <1>3 DEF UrbsOf
  <2> HIDE DEF pieces
  <2>6. DOMAIN UrbsOf(s) = 1 .. pieces
    BY <2>4, <2>5
  <2>7. Len(UrbsOf(s)) = pieces
    BY <2>3, <2>4, <2>5
  <2> QED
    BY <1>3, <2>3, <2>7
<1>4. CASE s.type = "control"
  BY <1>4 DEF UrbsOf
<1> QED
  BY <1>1, <1>2, <1>3, <1>4 DEF Setup

\* The initial state satisfies the invariant.
LEMMA InitInv == ASSUME SetupsSound, Init PROVE IInv
<1>1. N \in Nat \ {0} /\ (setup.type = "control" => N = 1)
  BY OneUrb DEF N, Urbs, Init
<1>2. TypeInv
  <2>1. urb \in [1 .. N -> States] /\ ended \in [1 .. N -> Ended]
    BY DEF Init, States, Ended
  <2>2. completed \in Seq(1 .. N)
    BY DEF Init
  <2>3. reaped \in 0 .. N /\ retired \in Nat
    BY <1>1 DEF Init
  <2>4. /\ setup \in Setups /\ pc = "submit"
        /\ live \in BOOLEAN /\ present \in BOOLEAN /\ blocked \in BOOLEAN
    BY Zenon DEF Init
  <2> QED
    BY <1>1, <2>1, <2>2, <2>3, <2>4 DEF TypeInv
<1>3. PlaceInv /\ ListInv /\ OrderInv /\ CountInv /\ FaultInv /\ EndInv
  BY <1>1 DEF Init, PlaceInv, ListInv, OrderInv, CountInv, FaultInv, EndInv, Handled, Queued
<1>4. ReportedWhenAllBack
  BY DEF Init, ReportedWhenAllBack
<1> QED
  BY <1>2, <1>3, <1>4 DEF IInv
-----------------------------------------------------------------------------
\* The kernel completes a set of URBs that were queued.  Which are not submitted,
\* and which were reaped, stays, and the list gets them all.
LEMMA Completing ==
  ASSUME TypeInv, ListInv, NEW D \in SUBSET {i \in 1 .. N : Queued(i)},
         NEW list \in Seq(D),
         \A i \in D : \E n \in 1 .. Len(list) : list[n] = i,
         \A m, n \in 1 .. Len(list) : m < n => list[m] < list[n],
         completed' = completed \o list,
         urb' = [i \in 1 .. N |-> IF i \in D THEN "done" ELSE urb[i]],
         UNCHANGED <<setup, reaped>>
  PROVE  /\ urb' \in [1 .. N -> States] /\ completed' \in Seq(1 .. N)
         /\ \A i \in 1 .. N : /\ urb'[i] = "none" <=> urb[i] = "none"
                              /\ urb'[i] = "reaped" <=> urb[i] = "reaped"
                              /\ Queued(i)' => Queued(i)
         /\ Handled' = Handled /\ Unsent' = Unsent
         /\ ListInv'
<1>1. N' = N
  BY SameTransfer
<1>2. \A i \in D : i \in 1 .. N /\ urb[i] = "queued"
  BY DEF Queued
<1>0. list \in Seq(1 .. N) /\ \A n \in 1 .. Len(list) : list[n] \in D
  <2>1. D \subseteq 1 .. N
    BY <1>2
  <2>2. list \in Seq(1 .. N)
    BY <2>1, SeqMonotonic
  <2>3. list \in [1 .. Len(list) -> D]
    BY LenProperties
  <2> QED
    BY <2>2, <2>3
<1>3. urb' \in [1 .. N -> States]
  BY DEF TypeInv, States
<1>4. completed' \in Seq(1 .. N)
  BY <1>0, ConcatProperties DEF TypeInv
<1>5. \A i \in 1 .. N : /\ urb'[i] = "none" <=> urb[i] = "none"
                        /\ urb'[i] = "reaped" <=> urb[i] = "reaped"
                        /\ Queued(i)' => Queued(i)
                        /\ urb'[i] = "done" <=> urb[i] = "done" \/ i \in D
  BY <1>2 DEF TypeInv, Queued
<1>6. Handled' = Handled /\ Unsent' = Unsent
  BY <1>1, <1>5 DEF Handled, Unsent
<1>7. /\ Len(completed') = Len(completed) + Len(list)
      /\ \A n \in 1 .. Len(completed) : completed'[n] = completed[n]
      /\ \A n \in 1 .. Len(list) : completed'[Len(completed) + n] = list[n]
      /\ Len(completed) \in Nat /\ Len(list) \in Nat
  BY <1>0, ConcatProperties, LenProperties DEF TypeInv
<1>8. \A n \in 1 .. Len(completed') :
         \/ n \in 1 .. Len(completed)
         \/ n - Len(completed) \in 1 .. Len(list)
            /\ completed'[n] = list[n - Len(completed)]
  <2> SUFFICES ASSUME NEW n \in 1 .. Len(completed'), n \notin 1 .. Len(completed)
               PROVE  n - Len(completed) \in 1 .. Len(list)
                      /\ completed'[n] = list[n - Len(completed)]
    OBVIOUS
  <2> DEFINE k == n - Len(completed)
  <2>1. k \in 1 .. Len(list) /\ Len(completed) + k = n
    BY <1>7
  <2> HIDE DEF k
  <2>2. completed'[n] = list[k]
    BY <1>7, <2>1
  <2> QED
    BY <2>1, <2>2 DEF k
<1>9. ASSUME NEW i \in 1 .. N
      PROVE  urb'[i] = "done" <=> \E n \in 1 .. Len(completed') : completed'[n] = i
  <2>1. ASSUME urb'[i] = "done" PROVE \E n \in 1 .. Len(completed') : completed'[n] = i
    <3>1. CASE urb[i] = "done"
      <4>1. PICK n \in 1 .. Len(completed) : completed[n] = i
        BY <3>1 DEF ListInv
      <4> QED
        BY <1>7, <4>1
    <3>2. CASE i \in D
      <4>1. PICK n \in 1 .. Len(list) : list[n] = i
        BY <3>2
      <4>2. Len(completed) + n \in 1 .. Len(completed')
        BY <1>7
      <4> QED
        BY <1>7, <4>1, <4>2
    <3> QED
      BY <1>5, <2>1, <3>1, <3>2
  <2>2. ASSUME NEW n \in 1 .. Len(completed'), completed'[n] = i PROVE urb'[i] = "done"
    <3>1. CASE n \in 1 .. Len(completed)
      BY <1>5, <1>7, <2>2, <3>1 DEF ListInv
    <3>2. CASE /\ n - Len(completed) \in 1 .. Len(list)
               /\ completed'[n] = list[n - Len(completed)]
      BY <1>5, <2>2, <3>2
    <3> QED
      BY <1>8, <3>1, <3>2
  <2> QED
    BY <2>1, <2>2
<1>10. ASSUME NEW m \in 1 .. Len(completed'), NEW n \in 1 .. Len(completed'),
              completed'[m] = completed'[n], m < n
       PROVE  FALSE
  <2>1. \A k \in 1 .. Len(completed) : completed[k] \in 1 .. N /\ urb[completed[k]] = "done"
    BY DEF TypeInv, ListInv
  <2>2. \A k \in 1 .. Len(list) : list[k] \in 1 .. N /\ urb[list[k]] = "queued"
    BY <1>0, <1>2
  <2>3. CASE n \in 1 .. Len(completed)
    BY <1>7, <1>10, <2>3 DEF ListInv
  <2>4. CASE m \in 1 .. Len(completed) /\ n \notin 1 .. Len(completed)
    <3>1. urb[completed'[m]] = "done"
      BY <1>7, <2>1, <2>4
    <3>2. urb[completed'[n]] = "queued"
      BY <1>8, <2>2, <2>4
    <3> QED
      BY <1>10, <3>1, <3>2
  <2>5. CASE m \notin 1 .. Len(completed) /\ n \notin 1 .. Len(completed)
    <3>1. m - Len(completed) < n - Len(completed)
      BY <1>7, <1>10
    <3>2. list[m - Len(completed)] < list[n - Len(completed)]
      BY <1>8, <2>5, <3>1
    <3>3. list[m - Len(completed)] = list[n - Len(completed)]
      BY <1>8, <1>10, <2>5
    <3> QED
      BY <1>8, <2>2, <2>5, <3>2, <3>3
  <2>6. m \in 1 .. Len(completed) => n \in 1 .. Len(completed) \/ n \notin 1 .. Len(completed)
    OBVIOUS
  <2>7. m \notin 1 .. Len(completed) => n \notin 1 .. Len(completed)
    BY <1>7, <1>10
  <2> QED
    BY <2>3, <2>4, <2>5, <2>6, <2>7
<1>11. \A m, n \in 1 .. Len(completed') : completed'[m] = completed'[n] => m = n
  <2> SUFFICES ASSUME NEW m \in 1 .. Len(completed'), NEW n \in 1 .. Len(completed'),
                      completed'[m] = completed'[n]
               PROVE  m = n
    OBVIOUS
  <2>1. ~(m < n) /\ ~(n < m)
    BY <1>10
  <2> QED
    BY <1>7, <2>1
<1>12. reaped' # 0 => urb'[reaped'] = "reaped"
  BY <1>5 DEF ListInv, TypeInv
<1> QED
  BY <1>1, <1>3, <1>4, <1>5, <1>6, <1>9, <1>11, <1>12 DEF ListInv
\* If the kernel takes them in order, and none that comes before them is left
\* behind, URBs that were in order stay so.
LEMMA CompletingInOrder ==
  ASSUME TypeInv, ListInv, OrderInv, NEW D \in SUBSET {i \in 1 .. N : Queued(i)},
         NEW list \in Seq(D),
         \A i \in D : \E n \in 1 .. Len(list) : list[n] = i,
         \A m, n \in 1 .. Len(list) : m < n => list[m] < list[n],
         completed' = completed \o list,
         urb' = [i \in 1 .. N |-> IF i \in D THEN "done" ELSE urb[i]],
         UNCHANGED <<setup, reaped, action>>,
         \A d \in D, i \in 1 .. N : i < d /\ Queued(i) => i \in D
  PROVE  OrderInv'
<1> SUFFICES ASSUME action = "NORMAL" PROVE OrderInv'
  BY DEF OrderInv
<1>1. N' = N /\ N \in Nat
  BY SameTransfer DEF TypeInv
<1>2. \A i \in D : i \in 1 .. N /\ urb[i] = "queued"
  BY DEF Queued
<1>3. \A i, j \in 1 .. N : i < j =>
        /\ urb[j] = "reaped" => urb[i] = "reaped"
        /\ urb[j] = "done" => urb[i] \in {"done", "reaped"}
        /\ urb[j] = "queued" => urb[i] # "none"
  BY DEF OrderInv
<1>4. \A i, j \in 1 .. N : i < j =>
        /\ urb'[j] = "reaped" => urb'[i] = "reaped"
        /\ urb'[j] = "done" => urb'[i] \in {"done", "reaped"}
        /\ urb'[j] = "queued" => urb'[i] # "none"
  <2> SUFFICES ASSUME NEW i \in 1 .. N, NEW j \in 1 .. N, i < j
               PROVE  /\ urb'[j] = "reaped" => urb'[i] = "reaped"
                      /\ urb'[j] = "done" => urb'[i] \in {"done", "reaped"}
                      /\ urb'[j] = "queued" => urb'[i] # "none"
    OBVIOUS
  <2>1. /\ urb'[i] = IF i \in D THEN "done" ELSE urb[i]
        /\ urb'[j] = IF j \in D THEN "done" ELSE urb[j]
    OBVIOUS
  <2>2. /\ urb[j] = "reaped" => urb[i] = "reaped"
        /\ urb[j] = "done" => urb[i] \in {"done", "reaped"}
        /\ urb[j] = "queued" => urb[i] # "none"
    BY <1>3
  <2>3. urb[i] \in States /\ (j \in D /\ urb[i] = "queued" => i \in D)
    BY DEF TypeInv, Queued
  <2> QED
    BY <1>2, <2>1, <2>2, <2>3 DEF States
<1>5. \A k \in 1 .. Len(completed) : completed[k] \in 1 .. N /\ urb[completed[k]] = "done"
  BY DEF TypeInv, ListInv
<1>6. \A k \in 1 .. Len(list) : list[k] \in D
  BY LenProperties
<1>7. \A k \in 1 .. Len(completed), l \in 1 .. Len(list) : completed[k] < list[l]
  <2> SUFFICES ASSUME NEW k \in 1 .. Len(completed), NEW l \in 1 .. Len(list),
                      ~(completed[k] < list[l])
               PROVE  FALSE
    OBVIOUS
  <2>1. completed[k] \in 1 .. N /\ list[l] \in 1 .. N
    BY <1>2, <1>5, <1>6
  <2>2. completed[k] = list[l] \/ list[l] < completed[k]
    BY <1>1, <2>1
  <2>3. urb[list[l]] = "queued" /\ urb[completed[k]] = "done"
    BY <1>2, <1>5, <1>6
  <2> QED
    BY <1>3, <2>1, <2>2, <2>3
<1>8. list \in Seq(1 .. N)
  BY <1>2, SeqMonotonic
<1>9. /\ Len(completed') = Len(completed) + Len(list)
      /\ Len(completed) \in Nat /\ Len(list) \in Nat
      /\ \A n \in 1 .. Len(completed) + Len(list) :
           completed'[n] = IF n <= Len(completed) THEN completed[n] ELSE list[n - Len(completed)]
  BY <1>8, ConcatProperties, LenProperties DEF TypeInv
<1>10. ASSUME NEW m \in 1 .. Len(completed'), NEW n \in 1 .. Len(completed'), m < n
       PROVE  completed'[m] < completed'[n]
  <2>1. CASE n <= Len(completed)
    <3>1. m \in 1 .. Len(completed) /\ n \in 1 .. Len(completed)
      BY <1>9, <1>10, <2>1
    <3> QED
      BY <1>9, <1>10, <2>1, <3>1 DEF OrderInv
  <2>2. CASE m <= Len(completed) /\ ~(n <= Len(completed))
    <3>1. m \in 1 .. Len(completed) /\ n - Len(completed) \in 1 .. Len(list)
      BY <1>9, <2>2
    <3> QED
      BY <1>7, <1>9, <2>2, <3>1
  <2>3. CASE ~(m <= Len(completed))
    <3>1. /\ m - Len(completed) \in 1 .. Len(list) /\ n - Len(completed) \in 1 .. Len(list)
          /\ m - Len(completed) < n - Len(completed) /\ ~(n <= Len(completed))
      BY <1>9, <1>10, <2>3
    <3> QED
      BY <1>9, <2>3, <3>1
  <2> QED
    BY <2>1, <2>2, <2>3
<1>11. reaped # 0 => \A j \in 1 .. N : j > reaped => urb'[j] # "reaped"
  BY DEF OrderInv
<1> QED
  BY <1>1, <1>4, <1>10, <1>11 DEF OrderInv

\* A list of a set in order has all its elements.
LEMMA OrderedList ==
  ASSUME NEW S, IsFiniteSet(S), S \subseteq Nat, NEW list \in InOrder(S)
  PROVE  /\ list \in Seq(S)
         /\ \A i \in S : \E n \in 1 .. Len(list) : list[n] = i
         /\ \A m, n \in 1 .. Len(list) : m < n => list[m] < list[n]
<1> DEFINE c == Cardinality(S)
<1>1. c \in Nat
  BY FS_CardinalityType
<1>2. list \in [1 .. c -> S] /\ \A m, n \in DOMAIN list : m < n => list[m] < list[n]
  BY DEF InOrder
<1> HIDE DEF c
<1>3. list \in Seq(S) /\ Len(list) = c
  BY <1>1, <1>2
<1>4. list \in Injection(1 .. c, S)
  <2>1. ASSUME NEW m \in 1 .. c, NEW n \in 1 .. c, list[m] = list[n] PROVE m = n
    <3>1. list[m] \in Nat /\ list[n] \in Nat
      BY <1>2
    <3>2. ~(m < n) /\ ~(n < m)
      BY <1>2, <2>1, <3>1
    <3> QED
      BY <1>1, <3>2
  <2> QED
    BY <1>2, <2>1 DEF Injection, IsInjective
<1>5. Cardinality(1 .. c) = c
  BY <1>1, FS_Interval
<1>6. list \in Surjection(1 .. c, S)
  BY <1>4, <1>5, FS_Injection DEF c
<1> QED
  BY <1>2, <1>3, <1>6 DEF Surjection
\* The kernel by itself moves neither a call nor what libusb knows.
LEMMA KernelQuiet ==
  ASSUME TypeInv, PlaceInv, CountInv, UNCHANGED <<setup, calls, reaped, priv>>,
         \A i \in 1 .. N : urb'[i] = "none" <=> urb[i] = "none",
         \A i \in 1 .. N : Queued(i)' => Queued(i),
         Handled' = Handled, Unsent' = Unsent
  PROVE  PlaceInv' /\ CountInv'
<1>1. N' = N
  BY SameTransfer
<1>2. UNCHANGED <<pc, at, down, live, retired, action, report>>
  BY DEF calls, priv
<1>3. PlaceInv'
  <2>1. \A i \in 1 .. N : Queued(i)' => Queued(i)
    OBVIOUS
  <2> QED
    BY <1>1, <1>2, <2>1 DEF PlaceInv
<1>4. CountInv'
  BY <1>1, <1>2 DEF CountInv
<1> QED
  BY <1>3, <1>4

\* The next URB, and the rest of a broken chain, come back in order.
LEMMA KernelStep == ASSUME IInv, KernelCompletes PROVE IInv'
<1> USE DEF IInv
<1>0. N' = N /\ N \in Nat /\ Continues' = Continues /\ UNCHANGED <<setup, calls, present, reaped, priv>>
  BY SameTransfer DEF KernelCompletes, TypeInv
<1>1. PICK i \in 1 .. N, st \in {"ok", "short"} \cup setup.faults :
        /\ urb[i] = "queued" /\ \A j \in 1 .. i - 1 : urb[j] # "queued"
        /\ st = "overflow" => i = N
        /\ ended' = [ended EXCEPT ![i] = st]
        /\ LET rest == IF Continues /\ st # "ok" /\ i < N
                         THEN {j \in i + 1 .. N : urb[j] = "queued"} ELSE {} IN
           /\ urb' = [j \in 1 .. N |-> IF j \in rest \cup {i} THEN "done" ELSE urb[j]]
           /\ \E list \in InOrder(rest) : completed' = completed \o <<i>> \o list
        /\ blocked' = (blocked \/ (Continues /\ st # "ok"))
  BY DEF KernelCompletes, Ends
<1> DEFINE rest == IF Continues /\ st # "ok" /\ i < N
                     THEN {j \in i + 1 .. N : urb[j] = "queued"} ELSE {}
           D == rest \cup {i}
<1>2. PICK list \in InOrder(rest) : completed' = completed \o <<i>> \o list
  BY <1>1
<1>3. /\ rest \subseteq i + 1 .. N /\ \A j \in rest : urb[j] = "queued"
      /\ rest # {} => \A j \in 1 .. N : j > i /\ urb[j] = "queued" => j \in rest
      /\ Continues /\ st # "ok" => \A j \in 1 .. N : j > i /\ urb[j] = "queued" => j \in rest
  BY <1>0, <1>1
<1>4. urb' = [j \in 1 .. N |-> IF j \in D THEN "done" ELSE urb[j]]
  BY <1>1
<1> HIDE DEF rest
<1>5. IsFiniteSet(rest) /\ rest \subseteq Nat
  <2>1. IsFiniteSet(i + 1 .. N) /\ i + 1 .. N \subseteq Nat
    BY <1>0, FS_Interval
  <2>2. rest \in SUBSET (i + 1 .. N)
    BY <1>3, Zenon
  <2> QED
    BY <2>1, <2>2, FS_Subset, Zenon
<1>6. /\ list \in Seq(rest)
      /\ \A j \in rest : \E n \in 1 .. Len(list) : list[n] = j
      /\ \A m, n \in 1 .. Len(list) : m < n => list[m] < list[n]
  BY <1>5, OrderedList
<1>7. D \in SUBSET {j \in 1 .. N : Queued(j)}
  <2>1. i + 1 .. N \subseteq 1 .. N
    BY <1>0
  <2>2. \A j \in D : j \in 1 .. N /\ urb[j] = "queued"
    BY <1>1, <1>3, <2>1, Zenon
  <2> QED
    BY <2>2, Zenon DEF Queued
<1>8. \A d \in D, j \in 1 .. N : j < d /\ Queued(j) => j \in D
  <2> SUFFICES ASSUME NEW d \in D, NEW j \in 1 .. N, j < d, urb[j] = "queued", j # i
               PROVE  j \in rest
    BY DEF Queued
  <2>1. j > i
    BY <1>0, <1>1
  <2>2. d # i
    BY <1>0, <2>1
  <2> QED
    BY <1>3, <2>1, <2>2
<1> DEFINE more == <<i>> \o list
<1>9. /\ more \in Seq(D) /\ completed' = completed \o more
      /\ \A j \in D : \E n \in 1 .. Len(more) : more[n] = j
      /\ \A m, n \in 1 .. Len(more) : m < n => more[m] < more[n]
  <2>1. list \in Seq(D) /\ <<i>> \in Seq(D)
    BY <1>6, SeqMonotonic
  <2>2. /\ Len(list) \in Nat /\ more \in Seq(D) /\ Len(more) = 1 + Len(list)
        /\ \A n \in 1 .. 1 + Len(list) : more[n] = IF n <= 1 THEN i ELSE list[n - 1]
    BY <2>1, ConcatProperties, LenProperties
  <2>3. completed' = completed \o more
    <3>1. list \in Seq(1 .. N) /\ <<i>> \in Seq(1 .. N) /\ completed \in Seq(1 .. N)
      BY <1>7, <2>1, SeqMonotonic DEF TypeInv
    <3> QED
      BY <1>2, <3>1, ConcatAssociative
  <2> HIDE DEF more
  <2>4. ASSUME NEW j \in D PROVE \E n \in 1 .. Len(more) : more[n] = j
    <3>1. CASE j = i
      BY <2>2, <3>1
    <3>2. CASE j \in rest
      <4>1. PICK n \in 1 .. Len(list) : list[n] = j
        BY <1>6, <3>2
      <4>2. n + 1 \in 1 .. 1 + Len(list) /\ ~(n + 1 <= 1) /\ n + 1 - 1 = n
        BY <2>2
      <4>3. more[n + 1] = list[n]
        BY <2>2, <4>2
      <4>4. n + 1 \in 1 .. Len(more)
        BY <2>2, <4>2
      <4> QED
        BY <4>1, <4>3, <4>4, Zenon
    <3> QED
      BY <3>1, <3>2
  <2>5. ASSUME NEW m \in 1 .. Len(more), NEW n \in 1 .. Len(more), m < n
        PROVE  more[m] < more[n]
    <3>1. n - 1 \in 1 .. Len(list) /\ more[n] = list[n - 1]
      BY <2>2, <2>5
    <3>2. list[n - 1] \in rest
      BY <1>6, <3>1, LenProperties
    <3>3. CASE m = 1
      <4>1. more[m] = i
        BY <2>2, <2>5, <3>3
      <4>2. list[n - 1] \in i + 1 .. N
        BY <1>3, <3>2
      <4>3. \A a \in i + 1 .. N : i < a
        BY <1>0
      <4> QED
        BY <3>1, <4>1, <4>2, <4>3, Zenon
    <3>4. CASE m # 1
      <4>1. m - 1 \in 1 .. Len(list) /\ more[m] = list[m - 1] /\ m - 1 < n - 1
        BY <2>2, <2>5, <3>4
      <4> QED
        BY <1>6, <3>1, <4>1
    <3> QED
      BY <3>3, <3>4
  <2> QED
    BY <2>2, <2>3, <2>4, <2>5
<1> HIDE DEF more, D
<1>10. UNCHANGED <<pc, at, down, live, retired, action, status, report, picked, removed, reaped, setup>>
  BY <1>0 DEF calls, priv
<1>11. /\ urb' \in [1 .. N -> States] /\ completed' \in Seq(1 .. N)
       /\ \A j \in 1 .. N : /\ urb'[j] = "none" <=> urb[j] = "none"
                            /\ Queued(j)' => Queued(j)
       /\ Handled' = Handled /\ Unsent' = Unsent
       /\ ListInv'
  BY <1>4, <1>7, <1>9, <1>10, Completing
<1>12. OrderInv'
  BY <1>4, <1>7, <1>8, <1>9, <1>10, CompletingInOrder
<1>13. PlaceInv' /\ CountInv'
  BY <1>0, <1>11, KernelQuiet
<1>14. setup.faults \subseteq {"stall", "proto", "overflow"}
  BY UsbUrbsAssumption DEF TypeInv, Setup
<1>15. TypeInv'
  <2>1. ended' \in [1 .. N -> Ended]
    BY <1>1, <1>14 DEF TypeInv, Ended
  <2>2. blocked' \in BOOLEAN
    BY <1>1
  <2> QED
    BY <1>0, <1>10, <1>11, <2>1, <2>2 DEF TypeInv
<1>16. ~blocked /\ present /\ live
  BY <1>1 DEF FaultInv, Queued, TypeInv, ReportedWhenAllBack
<1>17. FaultInv'
  <2>1. blocked' => \A j \in 1 .. N : ~Queued(j)'
    <3> SUFFICES ASSUME Continues, st # "ok", NEW j \in 1 .. N, urb'[j] = "queued" PROVE FALSE
      BY <1>1, <1>16 DEF Queued
    <3>1. j \notin D /\ urb[j] = "queued"
      BY <1>4
    <3>2. j > i
      BY <1>0, <1>1, <3>1 DEF D
    <3> QED
      BY <1>3, <3>1, <3>2 DEF D
  <2>2. ~(pc = "submit" /\ at = 1)
    BY <1>0, <1>1 DEF PlaceInv
  <2>3. ASSUME NEW j \in 1 .. N
        PROVE  /\ ended'[j] = "gone" => ~present'
               /\ ended'[j] = "stall" => "stall" \in setup.faults /\ (Continues => blocked')
               /\ ended'[j] = "overflow" => j = N
    <3>1. CASE j = i
      BY <1>1, <1>14, <3>1 DEF TypeInv
    <3>2. CASE j # i
      BY <1>0, <1>1, <3>2 DEF TypeInv, FaultInv
    <3> QED
      BY <3>1, <3>2
  <2>4. present' /\ (blocked' => Continues')
    BY <1>0, <1>1, <1>16
  <2> QED
    BY <1>0, <1>10, <2>1, <2>2, <2>3, <2>4 DEF FaultInv
<1>18. EndInv' /\ ReportedWhenAllBack'
  BY <1>0, <1>10, <1>16 DEF EndInv, ReportedWhenAllBack
<1> QED
  BY <1>11, <1>12, <1>13, <1>15, <1>17, <1>18
\* An unplugged device gives all of them back.
LEMMA UnplugStep == ASSUME IInv, Unplug PROVE IInv'
<1> USE DEF IInv
<1>0. /\ N' = N /\ N \in Nat /\ Continues' = Continues
      /\ UNCHANGED <<setup, calls, halted, blocked, reaped, priv>>
      /\ present' = FALSE
  BY SameTransfer DEF Unplug, TypeInv
<1> DEFINE D == {i \in 1 .. N : urb[i] = "queued"}
<1>1. PICK list \in InOrder(D) : completed' = completed \o list
  BY DEF Unplug
<1>2. /\ urb' = [i \in 1 .. N |-> IF i \in D THEN "done" ELSE urb[i]]
      /\ ended' = [i \in 1 .. N |-> IF i \in D THEN "gone" ELSE ended[i]]
  BY DEF Unplug
<1>3. IsFiniteSet(D) /\ D \subseteq Nat
  <2>1. IsFiniteSet(1 .. N) /\ 1 .. N \subseteq Nat /\ D \in SUBSET (1 .. N)
    BY <1>0, FS_Interval
  <2> QED
    BY <2>1, FS_Subset
<1>4. /\ list \in Seq(D)
      /\ \A j \in D : \E n \in 1 .. Len(list) : list[n] = j
      /\ \A m, n \in 1 .. Len(list) : m < n => list[m] < list[n]
  BY <1>3, OrderedList
<1>5. D \in SUBSET {i \in 1 .. N : Queued(i)}
  BY DEF Queued
<1>6. \A d \in D, i \in 1 .. N : i < d /\ Queued(i) => i \in D
  BY DEF Queued
<1>7. \A i \in 1 .. N : ~Queued(i)' /\ (urb'[i] = "done" => urb[i] = "done" \/ Queued(i))
  BY <1>2 DEF Queued
<1> HIDE DEF D
<1>8. UNCHANGED <<pc, at, down, live, retired, action, status, report, picked, removed, reaped, setup>>
  BY <1>0 DEF calls, priv
<1>9. /\ urb' \in [1 .. N -> States] /\ completed' \in Seq(1 .. N)
      /\ \A j \in 1 .. N : urb'[j] = "none" <=> urb[j] = "none"
      /\ \A j \in 1 .. N : Queued(j)' => Queued(j)
      /\ Handled' = Handled /\ Unsent' = Unsent
      /\ ListInv'
  BY <1>1, <1>2, <1>4, <1>5, <1>8, Completing
<1>10. OrderInv'
  BY <1>1, <1>2, <1>4, <1>5, <1>6, <1>8, CompletingInOrder
<1>11. PlaceInv' /\ CountInv'
  BY <1>0, <1>9, KernelQuiet
<1>12. TypeInv'
  <2>1. ended' \in [1 .. N -> Ended]
    BY <1>2 DEF TypeInv, Ended
  <2> QED
    BY <1>0, <1>8, <1>9, <2>1 DEF TypeInv
<1>13. FaultInv'
  <2>1. \A i \in 1 .. N : ended'[i] = ended[i] \/ ended'[i] = "gone"
    BY <1>2
  <2>2. \A i \in 1 .. N : ended'[i] # "gone" => ended'[i] = ended[i]
    BY <2>1
  <2> QED
    BY <1>0, <1>7, <1>8, <2>2 DEF FaultInv
<1>14. EndInv'
  BY <1>0, <1>8 DEF EndInv
<1>15. ReportedWhenAllBack'
  BY <1>0, <1>7, <1>8 DEF ReportedWhenAllBack, Queued
<1> QED
  BY <1>9, <1>10, <1>11, <1>12, <1>13, <1>14, <1>15

-----------------------------------------------------------------------------
\* While URBs are submitted none is handled, so that those that are refused, and
\* only those, are retired at once.
LEMMA SubmitStep == ASSUME IInv, Submit PROVE IInv'
<1> USE DEF IInv
<1>0. /\ N' = N /\ N \in Nat /\ Continues' = Continues
      /\ UNCHANGED <<setup, cancelled, picked, removed, ended, actual, completed, halted,
                     blocked, present, sent, buffer, reaped, status, transferred, packets>>
      /\ pc = "submit"
  BY SameTransfer DEF Submit, TypeInv
<1>1. /\ at \in 1 .. N /\ retired = 0 /\ action = "NORMAL" /\ live /\ Handled = {}
      /\ \A i \in 1 .. N : urb[i] = "none" <=> i >= at
  BY <1>0 DEF PlaceInv
<1>2. CASE Taken
  <2>1. /\ present /\ urb' = [urb EXCEPT ![at] = "queued"] /\ at' = at + 1
        /\ pc' = IF at < N THEN "submit" ELSE "idle"
        /\ UNCHANGED <<down, live, retired, action, report>>
    BY <1>2 DEF Taken
  <2>2. ~blocked
    BY <1>0, <1>1, <1>2 DEF Taken, FaultInv
  <2>3. /\ urb' \in [1 .. N -> States]
        /\ \A i \in 1 .. N : urb'[i] = IF i = at THEN "queued" ELSE urb[i]
    BY <1>1, <2>1 DEF TypeInv, States
  <2>4. \A i \in 1 .. N : /\ urb'[i] = "none" <=> i >= at + 1
                          /\ urb'[i] = "reaped" <=> urb[i] = "reaped"
                          /\ urb'[i] = "done" <=> urb[i] = "done"
                          /\ urb'[i] = "queued" => i <= at
    <3> SUFFICES ASSUME NEW i \in 1 .. N
                 PROVE  /\ urb'[i] = "none" <=> i >= at + 1
                        /\ urb'[i] = "reaped" <=> urb[i] = "reaped"
                        /\ urb'[i] = "done" <=> urb[i] = "done"
                        /\ urb'[i] = "queued" => i <= at
      OBVIOUS
    <3>1. CASE i = at
      BY <1>0, <1>1, <2>3, <3>1
    <3>2. CASE i # at
      BY <1>0, <1>1, <2>3, <3>2
    <3> QED
      BY <3>1, <3>2
  <2>5. Handled' = {}
    BY <1>0, <1>1, <2>4 DEF Handled
  <2>6. TypeInv'
    BY <1>0, <2>1, <2>3 DEF TypeInv
  <2>7. PlaceInv'
    <3>1. pc' \in {"submit", "idle"} /\ (pc' = "submit" => at' \in 1 .. N)
      BY <1>0, <1>1, <2>1
    <3> QED
      BY <1>0, <1>1, <2>1, <2>4, <2>5, <3>1 DEF PlaceInv
  <2>8. ListInv'
    BY <1>0, <2>4 DEF ListInv, TypeInv
  <2>9. OrderInv'
    <3>1. \A i, j \in 1 .. N : i < j =>
            /\ urb'[j] = "reaped" => urb'[i] = "reaped"
            /\ urb'[j] = "done" => urb'[i] \in {"done", "reaped"}
            /\ urb'[j] = "queued" => urb'[i] # "none"
      <4> SUFFICES ASSUME NEW i \in 1 .. N, NEW j \in 1 .. N, i < j
                   PROVE  /\ urb'[j] = "reaped" => urb'[i] = "reaped"
                          /\ urb'[j] = "done" => urb'[i] \in {"done", "reaped"}
                          /\ urb'[j] = "queued" => urb'[i] # "none"
        OBVIOUS
      <4>1. /\ urb[j] = "reaped" => urb[i] = "reaped"
            /\ urb[j] = "done" => urb[i] \in {"done", "reaped"}
        BY <1>1 DEF OrderInv
      <4>2. urb'[j] = "queued" => ~(i >= at + 1)
        BY <1>0, <1>1, <2>4
      <4> QED
        BY <2>4, <4>1, <4>2
    <3> QED
      BY <1>0, <1>1, <2>1, <2>4, <3>1 DEF OrderInv
  <2>10. CountInv'
    <3>1. pc' # "submit" => Unsent' = {}
      <4>1. pc' # "submit" => ~(at < N)
        BY <2>1
      <4>2. ~(at < N) => \A i \in 1 .. N : ~(i >= at + 1)
        BY <1>0, <1>1
      <4> QED
        BY <1>0, <2>4, <4>1, <4>2 DEF Unsent
    <3>2. Cardinality({}) = 0
      BY FS_EmptySet
    <3> QED
      BY <1>0, <1>1, <2>1, <2>5, <3>1, <3>2 DEF CountInv
  <2>11. FaultInv'
    <3>1. ~blocked' /\ present'
      BY <1>0, <2>1, <2>2
    <3> QED
      BY <1>0, <3>1 DEF FaultInv
  <2>12. EndInv' /\ ReportedWhenAllBack'
    BY <1>0, <1>1, <2>1 DEF EndInv, ReportedWhenAllBack
  <2> QED
    BY <2>6, <2>7, <2>8, <2>9, <2>10, <2>11, <2>12
<1>3. ASSUME NEW short \in BOOLEAN, Refused(short) PROVE IInv'
  <2>1. UNCHANGED <<urb, at>> /\ Handled' = Handled /\ Unsent' = Unsent
    BY <1>0, <1>3 DEF Refused, Handled, Unsent
  <2>2. CASE at = 1
    <3>1. live' = FALSE /\ report' = "refused" /\ pc' = "idle" /\ UNCHANGED <<retired, action, down>>
      BY <1>3, <2>2 DEF Refused
    <3>2. \A i \in 1 .. N : urb[i] = "none"
      BY <1>0, <1>1, <2>2
    <3>3. reaped = 0
      BY <3>2 DEF ListInv, TypeInv
    <3>4. TypeInv' /\ PlaceInv' /\ EndInv'
      BY <1>0, <2>1, <3>1 DEF TypeInv, PlaceInv, EndInv
    <3>5. ListInv' /\ OrderInv'
      BY <1>0, <2>1, <3>1 DEF ListInv, OrderInv
    <3>6. CountInv' /\ FaultInv'
      BY <1>0, <2>1, <3>1 DEF CountInv, FaultInv, Queued
    <3>7. ReportedWhenAllBack'
      BY <1>0, <2>1, <3>2, <3>3 DEF ReportedWhenAllBack
    <3> QED
      BY <3>4, <3>5, <3>6, <3>7
  <2>3. CASE at # 1
    <3>1. /\ action' # "NORMAL" /\ retired' = retired + Unsubmitted(at)
          /\ pc' \in {"idle", "refused"} /\ down' = 1 /\ UNCHANGED <<live, report>>
      BY <1>3, <2>3 DEF Refused
    <3>2. at \in 2 .. N /\ N # 1
      BY <1>0, <1>1, <2>3
    <3>3. retired' = N - at + 1 /\ retired' \in Nat
      BY <1>0, <1>1, <3>1, <3>2 DEF Unsubmitted
    <3>4. Cardinality(Unsent) = N - at + 1
      <4>1. Unsent = at .. N
        BY <1>0, <1>1 DEF Unsent
      <4>2. Cardinality(at .. N) = IF at > N THEN 0 ELSE N - at + 1
        BY <1>0, <1>1, FS_Interval
      <4> QED
        BY <1>0, <1>1, <4>1, <4>2
    <3>5. Cardinality(Handled) = 0
      BY <1>1, FS_EmptySet
    <3>6. TypeInv'
      BY <1>0, <2>1, <3>1, <3>3 DEF TypeInv
    <3>7. PlaceInv' /\ EndInv'
      BY <1>0, <1>1, <2>1, <3>1, <3>2 DEF PlaceInv, EndInv
    <3>8. ListInv' /\ OrderInv'
      BY <1>0, <2>1, <3>1 DEF ListInv, OrderInv
    <3>9. CountInv'
      <4>1. retired' = Cardinality(Handled') + Cardinality(Unsent')
        BY <1>0, <1>1, <2>1, <3>3, <3>4, <3>5
      <4> QED
        BY <1>0, <3>2, <4>1 DEF CountInv
    <3>10. FaultInv'
      BY <1>0, <2>1, <3>1 DEF FaultInv, Queued
    <3>11. ReportedWhenAllBack'
      BY <1>0, <1>1, <3>1 DEF ReportedWhenAllBack
    <3> QED
      BY <3>6, <3>7, <3>8, <3>9, <3>10, <3>11
  <2> QED
    BY <2>2, <2>3
<1> QED
  BY <1>2, <1>3 DEF Submit
-----------------------------------------------------------------------------
\* discard_urbs starts: after a refusal, and for a cancellation.
LEMMA DiscardStarts ==
  ASSUME IInv, DiscardRefused \/ op_cancel_transfer
  PROVE  IInv'
<1> USE DEF IInv
<1>0. /\ UNCHANGED <<setup, picked, removed, kernel, reaped, live, retired, status, report>>
      /\ pc # "submit" /\ pc' = "discard" /\ live /\ action' # "NORMAL"
      /\ down' = 1 /\ at' \in 1 .. N
  <2>1. N \in Nat \ {0}
    BY DEF TypeInv
  <2>2. CASE DiscardRefused
    <3>1. at \in 2 .. N /\ action # "NORMAL" /\ live
      BY <2>2 DEF DiscardRefused, PlaceInv
    <3>2. at - 1 \in 1 .. N
      BY <2>1, <3>1
    <3> QED
      BY <2>2, <3>1, <3>2 DEF DiscardRefused, DiscardFrom, priv
  <2>3. CASE op_cancel_transfer
    BY <2>1, <2>3 DEF op_cancel_transfer
  <2> QED
    BY <2>2, <2>3
<1>1. N' = N /\ N \in Nat /\ Continues' = Continues
      /\ UNCHANGED <<urb, ended, completed, blocked, present>>
  BY <1>0, SameTransfer DEF TypeInv, kernel
<1>2. Handled' = Handled /\ Unsent' = Unsent
  BY <1>0, <1>1 DEF Handled, Unsent
<1>3. TypeInv'
  BY <1>0, <1>1 DEF TypeInv
<1>4. PlaceInv'
  BY <1>0, <1>1 DEF PlaceInv
<1>5. ListInv' /\ OrderInv'
  BY <1>0, <1>1 DEF ListInv, OrderInv
<1>6. CountInv'
  BY <1>0, <1>1, <1>2 DEF CountInv
<1>7. FaultInv' /\ EndInv' /\ ReportedWhenAllBack'
  BY <1>0, <1>1 DEF FaultInv, EndInv, ReportedWhenAllBack, Queued
<1> QED
  BY <1>3, <1>4, <1>5, <1>6, <1>7

\* An URB is discarded, or was done already.
LEMMA DiscardStep == ASSUME IInv, discard_urbs PROVE IInv'
<1> USE DEF IInv
<1>0. /\ N' = N /\ N \in Nat /\ Continues' = Continues
      /\ UNCHANGED <<setup, down, cancelled, picked, removed, halted, blocked, present,
                     reaped, priv>>
      /\ pc \in {"discard", "remaining"} /\ at' = at - 1
      /\ pc' = IF at > down THEN pc ELSE "idle"
  BY SameTransfer DEF discard_urbs, TypeInv
<1>1. down \in 1 .. N /\ at \in down .. N /\ live
  BY <1>0 DEF PlaceInv
<1>2. at \in 1 .. N /\ (at > down => at - 1 \in down .. N)
  BY <1>0, <1>1
<1>3. UNCHANGED <<live, retired, action, status, report>>
  BY <1>0 DEF priv
<1>4. /\ urb' \in [1 .. N -> States] /\ completed' \in Seq(1 .. N)
      /\ \A i \in 1 .. N : Queued(i)' => Queued(i)
      /\ Handled' = Handled /\ Unsent' = Unsent
      /\ ListInv' /\ OrderInv'
      /\ ended' \in [1 .. N -> Ended]
      /\ \A i \in 1 .. N : ended'[i] # ended[i] => ended'[i] = "cancelled"
  <2>1. CASE urb[at] # "queued"
    <3>1. UNCHANGED <<urb, completed, ended>>
      BY <2>1 DEF discard_urbs
    <3> QED
      BY <1>0, <1>3, <3>1 DEF TypeInv, ListInv, OrderInv, Handled, Unsent, Queued
  <2>2. CASE urb[at] = "queued"
    <3>1. /\ urb' = [urb EXCEPT ![at] = "done"] /\ completed' = Append(completed, at)
          /\ ended' = [ended EXCEPT ![at] = "cancelled"]
      BY <2>2 DEF discard_urbs, Kill, Ends
    <3> DEFINE D == {at}
               list == <<at>>
    <3>2. urb' = [i \in 1 .. N |-> IF i \in D THEN "done" ELSE urb[i]]
      BY <3>1 DEF TypeInv
    <3>3. completed' = completed \o list
      BY <1>2, <3>1 DEF TypeInv
    <3>4. D \in SUBSET {i \in 1 .. N : Queued(i)}
      BY <1>2, <2>2 DEF Queued
    <3>5. /\ list \in Seq(D)
          /\ \A i \in D : \E n \in 1 .. Len(list) : list[n] = i
          /\ \A m, n \in 1 .. Len(list) : m < n => list[m] < list[n]
      OBVIOUS
    <3> HIDE DEF D, list
    <3>6. UNCHANGED <<setup, reaped>>
      BY <1>0
    <3>7. /\ urb' \in [1 .. N -> States] /\ completed' \in Seq(1 .. N)
          /\ \A i \in 1 .. N : Queued(i)' => Queued(i)
          /\ Handled' = Handled /\ Unsent' = Unsent
          /\ ListInv'
      BY <3>2, <3>3, <3>4, <3>5, <3>6, Completing
    <3>8. action # "NORMAL"
      BY <1>0, <1>2, <2>2 DEF PlaceInv, Queued
    <3>9. OrderInv'
      BY <1>3, <3>8 DEF OrderInv
    <3>10. /\ ended' \in [1 .. N -> Ended]
           /\ \A i \in 1 .. N : ended'[i] # ended[i] => ended'[i] = "cancelled"
      BY <1>2, <3>1 DEF TypeInv, Ended
    <3> QED
      BY <3>7, <3>9, <3>10
  <2> QED
    BY <2>1, <2>2
<1>5. TypeInv'
  BY <1>0, <1>3, <1>4 DEF TypeInv
<1>6. PlaceInv'
  <2>1. pc' \in {pc, "idle"} /\ (pc' # "idle" => at' \in down .. N)
    BY <1>0, <1>2
  <2>2. pc' # "submit" /\ pc' # "refused"
    BY <1>0, <2>1
  <2>3. pc' = "discard" => action' # "NORMAL"
    BY <1>0, <1>3, <2>1 DEF PlaceInv
  <2>4. pc' = "remaining" /\ action' = "NORMAL" => \A i \in 1 .. N : ~Queued(i)'
    BY <1>0, <1>3, <1>4, <2>1 DEF PlaceInv
  <2> QED
    BY <1>0, <1>1, <1>3, <2>1, <2>2, <2>3, <2>4 DEF PlaceInv
<1>7. CountInv'
  BY <1>0, <1>1, <1>3, <1>4 DEF CountInv
<1>8. FaultInv'
  <2>1. \A i \in 1 .. N : ended'[i] = ended[i] \/ ended'[i] = "cancelled"
    BY <1>4
  <2>2. ~(pc' = "submit")
    BY <1>0
  <2>3. \A i \in 1 .. N :
          /\ ended'[i] = "gone" => ended[i] = "gone"
          /\ ended'[i] = "stall" => ended[i] = "stall"
          /\ ended'[i] = "overflow" => ended[i] = "overflow"
    BY <2>1
  <2> QED
    BY <1>0, <1>4, <2>2, <2>3 DEF FaultInv
<1>9. EndInv' /\ ReportedWhenAllBack'
  BY <1>0, <1>1, <1>3 DEF EndInv, ReportedWhenAllBack
<1> QED
  BY <1>4, <1>5, <1>6, <1>7, <1>8, <1>9

-----------------------------------------------------------------------------
\* The oldest URB of the list is reaped.
LEMMA ReapStep == ASSUME IInv, Reap PROVE IInv'
<1> USE DEF IInv
<1> DEFINE h == completed[1]
<1>0. /\ N' = N /\ N \in Nat /\ Continues' = Continues
      /\ reaped = 0 /\ completed # <<>> /\ ~removed
      /\ reaped' = h /\ completed' = Tail(completed) /\ urb' = [urb EXCEPT ![h] = "reaped"]
      /\ UNCHANGED <<setup, calls, ended, actual, halted, blocked, present, sent, buffer, priv>>
  BY SameTransfer DEF Reap, TypeInv
<1>1. UNCHANGED <<pc, at, down, live, retired, action, status, report, picked, removed>>
  BY <1>0 DEF calls, priv
<1>2. /\ Len(completed) \in Nat \ {0} /\ h \in 1 .. N
      /\ completed' \in Seq(1 .. N) /\ Len(completed') = Len(completed) - 1
      /\ \A n \in 1 .. Len(completed) - 1 : completed'[n] = completed[n + 1]
  BY <1>0 DEF TypeInv
<1>3. urb[h] = "done"
  BY <1>2 DEF ListInv
<1>4. \A i \in 1 .. N : urb'[i] = IF i = h THEN "reaped" ELSE urb[i]
  BY <1>0 DEF TypeInv
<1> HIDE DEF h
<1>5. \A i \in 1 .. N : /\ urb'[i] = "none" <=> urb[i] = "none"
                        /\ urb'[i] = "queued" <=> urb[i] = "queued"
                        /\ urb'[i] = "done" <=> urb[i] = "done" /\ i # h
                        /\ urb'[i] = "reaped" <=> urb[i] = "reaped" \/ i = h
  BY <1>3, <1>4
<1>6. Handled' = Handled /\ Unsent' = Unsent
  <2>1. \A i \in 1 .. N : urb'[i] = "reaped" /\ i # h <=> urb[i] = "reaped" /\ i # 0
    BY <1>0, <1>2, <1>3, <1>5
  <2> QED
    BY <1>0, <1>5, <2>1 DEF Handled, Unsent
<1>7. live
  BY <1>0, <1>2, <1>3 DEF ReportedWhenAllBack, TypeInv
<1>8. TypeInv'
  <2>1. urb' \in [1 .. N -> States]
    BY <1>0, <1>2 DEF TypeInv, States
  <2>2. reaped' \in 0 .. N
    BY <1>0, <1>2
  <2> QED
    BY <1>0, <1>1, <1>2, <2>1, <2>2 DEF TypeInv
<1>9. PlaceInv'
  <2>1. \A i \in 1 .. N : Queued(i)' => Queued(i)
    BY <1>5 DEF Queued
  <2>2. \A i \in 1 .. N : urb'[i] = "none" <=> urb[i] = "none"
    BY <1>5
  <2> QED
    BY <1>0, <1>1, <1>6, <2>1, <2>2 DEF PlaceInv
<1>10. ListInv'
  <2>1. ASSUME NEW i \in 1 .. N
        PROVE  urb'[i] = "done" <=> \E n \in 1 .. Len(completed') : completed'[n] = i
    <3>1. ASSUME urb'[i] = "done" PROVE \E n \in 1 .. Len(completed') : completed'[n] = i
      <4>1. PICK n \in 1 .. Len(completed) : completed[n] = i
        BY <1>5, <3>1 DEF ListInv
      <4>2. n # 1
        BY <1>5, <3>1, <4>1 DEF h
      <4> DEFINE k == n - 1
      <4>3. k \in 1 .. Len(completed) - 1 /\ k + 1 = n
        BY <1>2, <4>2
      <4> HIDE DEF k
      <4>4. completed'[k] = i
        BY <1>2, <4>1, <4>3
      <4> QED
        BY <1>2, <4>3, <4>4
    <3>2. ASSUME NEW n \in 1 .. Len(completed'), completed'[n] = i PROVE urb'[i] = "done"
      <4>1. n \in 1 .. Len(completed) - 1 /\ n + 1 \in 1 .. Len(completed) /\ n + 1 # 1
            /\ 1 \in 1 .. Len(completed)
        BY <1>2
      <4>2. completed[n + 1] = i
        BY <1>2, <3>2, <4>1
      <4>3. urb[i] = "done" /\ i # h
        BY <4>1, <4>2 DEF ListInv, h
      <4> QED
        BY <1>5, <4>3
    <3> QED
      BY <3>1, <3>2
  <2>2. \A m, n \in 1 .. Len(completed') : completed'[m] = completed'[n] => m = n
    <3> SUFFICES ASSUME NEW m \in 1 .. Len(completed'), NEW n \in 1 .. Len(completed'),
                        completed'[m] = completed'[n]
                 PROVE  m = n
      OBVIOUS
    <3>1. /\ m \in 1 .. Len(completed) - 1 /\ n \in 1 .. Len(completed) - 1
          /\ m + 1 \in 1 .. Len(completed) /\ n + 1 \in 1 .. Len(completed)
      BY <1>2
    <3>2. completed[m + 1] = completed[n + 1]
      BY <1>2, <3>1
    <3>3. m + 1 = n + 1
      BY <3>1, <3>2 DEF ListInv
    <3> QED
      BY <3>1, <3>3
  <2>3. urb'[reaped'] = "reaped"
    BY <1>0, <1>2, <1>4
  <2> QED
    BY <1>0, <2>1, <2>2, <2>3 DEF ListInv
<1>11. OrderInv'
  <2> SUFFICES ASSUME action = "NORMAL" PROVE OrderInv'
    BY <1>1 DEF OrderInv
  <2>1. /\ \A i, j \in 1 .. N : i < j =>
             /\ urb[j] = "reaped" => urb[i] = "reaped"
             /\ urb[j] = "done" => urb[i] \in {"done", "reaped"}
             /\ urb[j] = "queued" => urb[i] # "none"
        /\ \A m, n \in 1 .. Len(completed) : m < n => completed[m] < completed[n]
    BY DEF OrderInv
  <2>2. ASSUME NEW i \in 1 .. N, i < h PROVE urb[i] = "reaped"
    <3>1. urb[i] \in {"done", "reaped"}
      BY <1>2, <1>3, <2>1, <2>2
    <3>2. ASSUME urb[i] = "done" PROVE FALSE
      <4>1. PICK n \in 1 .. Len(completed) : completed[n] = i
        BY <3>2 DEF ListInv
      <4>2. n = 1 \/ (1 \in 1 .. Len(completed) /\ 1 < n)
        BY <1>2
      <4>3. n = 1 \/ h < i
        BY <2>1, <4>1, <4>2 DEF h
      <4> QED
        BY <1>0, <1>2, <2>2, <4>1, <4>3 DEF h
    <3> QED
      BY <3>1, <3>2
  <2>3. \A i, j \in 1 .. N : i < j =>
          /\ urb'[j] = "reaped" => urb'[i] = "reaped"
          /\ urb'[j] = "done" => urb'[i] \in {"done", "reaped"}
          /\ urb'[j] = "queued" => urb'[i] # "none"
    <3> SUFFICES ASSUME NEW i \in 1 .. N, NEW j \in 1 .. N, i < j
                 PROVE  /\ urb'[j] = "reaped" => urb'[i] = "reaped"
                        /\ urb'[j] = "done" => urb'[i] \in {"done", "reaped"}
                        /\ urb'[j] = "queued" => urb'[i] # "none"
      OBVIOUS
    <3>1. /\ urb[j] = "reaped" => urb[i] = "reaped"
          /\ urb[j] = "done" => urb[i] \in {"done", "reaped"}
          /\ urb[j] = "queued" => urb[i] # "none"
          /\ j = h => urb[i] = "reaped"
      BY <2>1, <2>2
    <3> QED
      BY <1>5, <3>1
  <2>4. \A m, n \in 1 .. Len(completed') : m < n => completed'[m] < completed'[n]
    <3> SUFFICES ASSUME NEW m \in 1 .. Len(completed'), NEW n \in 1 .. Len(completed'), m < n
                 PROVE  completed'[m] < completed'[n]
      OBVIOUS
    <3>1. /\ m \in 1 .. Len(completed) - 1 /\ n \in 1 .. Len(completed) - 1
          /\ m + 1 \in 1 .. Len(completed) /\ n + 1 \in 1 .. Len(completed) /\ m + 1 < n + 1
      BY <1>2
    <3> QED
      BY <1>2, <2>1, <3>1
  <2>5. \A j \in 1 .. N : j > h => urb'[j] # "reaped"
    <3> SUFFICES ASSUME NEW j \in 1 .. N, j > h, urb'[j] = "reaped" PROVE FALSE
      OBVIOUS
    <3>1. h < j /\ j # h
      BY <1>0, <1>2
    <3>2. urb[j] = "reaped"
      BY <1>5, <3>1
    <3> QED
      BY <1>2, <1>3, <2>1, <3>1, <3>2
  <2> QED
    BY <1>0, <1>1, <2>3, <2>4, <2>5 DEF OrderInv
<1>12. CountInv'
  BY <1>0, <1>1, <1>6 DEF CountInv
<1>13. FaultInv'
  <2>1. \A i \in 1 .. N : Queued(i)' => Queued(i)
    BY <1>5 DEF Queued
  <2> QED
    BY <1>0, <1>1, <2>1 DEF FaultInv
<1>14. EndInv' /\ ReportedWhenAllBack'
  BY <1>0, <1>1, <1>7 DEF EndInv, ReportedWhenAllBack
<1> QED
  BY <1>8, <1>9, <1>10, <1>11, <1>12, <1>13, <1>14
-----------------------------------------------------------------------------
\* What the handling of the URB that was reaped finds.
LEMMA HandleFinds ==
  ASSUME IInv, reaped # 0, pc = "idle", live
  PROVE  /\ reaped \in 1 .. N /\ urb[reaped] = "reaped" /\ ~removed
         /\ action = "NORMAL" =>
              /\ \A j \in 1 .. N : j < reaped => urb[j] = "reaped"
              /\ reaped = N => Unsent = {} /\ Handled \cup {reaped} = 1 .. N
         /\ setup.type # "control" =>
              retired + 1 = Cardinality(Handled \cup {reaped}) + Cardinality(Unsent)
         /\ Handled \cup {reaped} \subseteq 1 .. N /\ Unsent \subseteq 1 .. N
         /\ Unsent \cap (Handled \cup {reaped}) = {}
<1> USE DEF IInv
<1>1. reaped \in 1 .. N /\ urb[reaped] = "reaped" /\ ~removed /\ N \in Nat
  BY DEF TypeInv, ListInv, EndInv
<1>2. /\ Handled \cup {reaped} \subseteq 1 .. N /\ Unsent \subseteq 1 .. N
      /\ Unsent \cap (Handled \cup {reaped}) = {} /\ reaped \notin Handled
  BY <1>1 DEF Handled, Unsent
<1>3. action = "NORMAL" => \A j \in 1 .. N : j < reaped => urb[j] = "reaped"
  BY <1>1 DEF OrderInv
<1>4. ASSUME action = "NORMAL", reaped = N PROVE Unsent = {} /\ Handled \cup {reaped} = 1 .. N
  <2>1. \A j \in 1 .. N : urb[j] = "reaped"
    BY <1>1, <1>3, <1>4
  <2> QED
    BY <1>1, <2>1 DEF Handled, Unsent
<1>5. setup.type # "control" =>
        retired + 1 = Cardinality(Handled \cup {reaped}) + Cardinality(Unsent)
  <2> SUFFICES ASSUME setup.type # "control"
               PROVE  retired + 1 = Cardinality(Handled \cup {reaped}) + Cardinality(Unsent)
    OBVIOUS
  <2>1. retired = Cardinality(Handled) + Cardinality(Unsent)
    BY DEF CountInv
  <2>2. IsFiniteSet(1 .. N)
    BY <1>1, FS_Interval
  <2>3. IsFiniteSet(Handled) /\ IsFiniteSet(Unsent)
    BY <1>2, <2>2, FS_Subset
  <2>4. Cardinality(Handled) \in Nat /\ Cardinality(Unsent) \in Nat
    BY <2>3, FS_CardinalityType
  <2>5. Cardinality(Handled \cup {reaped}) = Cardinality(Handled) + 1
    BY <1>2, <2>3, FS_AddElement
  <2> QED
    BY <2>1, <2>4, <2>5
<1> QED
  BY <1>1, <1>2, <1>3, <1>4, <1>5

\* When as many are retired as there are URBs, all of them are back.
LEMMA CountedOut ==
  ASSUME NEW n \in Nat, NEW H \in SUBSET (1 .. n), NEW U \in SUBSET (1 .. n), U \cap H = {}
  PROVE  /\ Cardinality(H) + Cardinality(U) = n <=> H \cup U = 1 .. n
         /\ Cardinality(H) + Cardinality(U) \in Nat
<1>1. IsFiniteSet(1 .. n) /\ Cardinality(1 .. n) = n
  BY FS_Interval
<1>2. IsFiniteSet(H) /\ IsFiniteSet(U)
  BY <1>1, FS_Subset
<1>3. /\ Cardinality(H) \in Nat /\ Cardinality(U) \in Nat /\ Cardinality(H \cap U) = 0
  BY <1>2, FS_CardinalityType, FS_EmptySet
<1>4. Cardinality(H \cup U) = Cardinality(H) + Cardinality(U)
  BY <1>2, <1>3, FS_Union
<1>5. Cardinality(1 .. n) = Cardinality(H \cup U) => 1 .. n = H \cup U
  BY <1>1, FS_Subset
<1>6. H \cup U = 1 .. n => Cardinality(H \cup U) = n
  BY <1>1
<1> QED
  BY <1>1, <1>3, <1>4, <1>5, <1>6

\* What the completion of an URB comes to: a report when all are back, or to go
\* on, in order while nothing went wrong.
Outcome ==
  /\ \/ UNCHANGED <<live, report>>
     \/ live' = FALSE /\ report' # "none" /\ Handled \cup {reaped} \cup Unsent = 1 .. N
  /\ \/ UNCHANGED calls
     \/ /\ pc' = "remaining" /\ down' \in 1 .. N /\ at' = N /\ UNCHANGED <<cancelled, picked, removed>>
        /\ UNCHANGED <<live, report>>
        /\ action' = "NORMAL" => \A j \in 1 .. N : ~Queued(j)
  /\ action' = "NORMAL" => action = "NORMAL"
  /\ IF setup.type = "control" THEN live' = FALSE /\ retired' = retired ELSE retired' = retired + 1
  /\ status' # "none"

\* A report is one.
LEMMA Reported ==
  ASSUME NEW st, st # "none", Report(st)
  PROVE  live' = FALSE /\ report' # "none"
BY DEF Report

\* Every URB has a verdict.
LEMMA VerdictGiven == \A i : Verdict(i) # "none"
BY DEF Verdict

\* A bulk transfer: in order up to the last URB, or counted.  A fault that leaves
\* reap_action as it is leaves nothing with the kernel either, or there is one URB.
LEMMA BulkOutcome ==
  ASSUME SetupsSound, IInv, reaped # 0, pc = "idle", live, handle_bulk_completion(reaped)
  PROVE  Outcome
<1> DEFINE i == reaped
<1>1. /\ i \in 1 .. N /\ urb[i] = "reaped" /\ N \in Nat \ {0}
      /\ setup.type = "bulk" /\ retired' = retired + 1 /\ status # "none"
  BY HandleFinds DEF handle_bulk_completion, IInv, TypeInv, EndInv
<1>2. AllBack <=> Handled \cup {i} \cup Unsent = 1 .. N
  BY <1>1, HandleFinds, CountedOut DEF AllBack
<1>3. action = "NORMAL" /\ ~AllBack => i # N
  BY <1>2, HandleFinds
<1>4. CASE AbnormalBulk(i)
  <2>1. /\ action # "NORMAL" /\ UNCHANGED <<action, calls>> /\ status' = FinalStatus
        /\ IF AllBack THEN Report(status') ELSE GoesOn
    BY <1>4 DEF AbnormalBulk
  <2>2. status' # "none"
    BY <1>1, <2>1 DEF FinalStatus
  <2>3. AllBack => live' = FALSE /\ report' # "none"
    BY <2>1, <2>2, Reported
  <2>4. ~AllBack => UNCHANGED <<live, report>>
    BY <2>1 DEF GoesOn
  <2> QED
    BY <1>1, <1>2, <2>1, <2>2, <2>3, <2>4 DEF Outcome
<1>5. CASE NormalBulk(i)
  <2>1. /\ action = "NORMAL"
        /\ status' = IF status = "COMPLETED" \/ ended[i] = "gone" THEN
                       (IF Verdict(i) # "COMPLETED" THEN Verdict(i) ELSE status) ELSE status
    BY <1>5 DEF NormalBulk
  <2>2. status' # "none"
    BY <1>1, <2>1, VerdictGiven
  <2>3. ASSUME i = N, Report(status'), UNCHANGED <<action, calls>> PROVE Outcome
    <3>1. Handled \cup {reaped} \cup Unsent = 1 .. N
      BY <2>1, <2>3, HandleFinds
    <3>2. live' = FALSE /\ report' # "none"
      BY <2>2, <2>3, Reported
    <3> QED
      BY <1>1, <2>1, <2>2, <2>3, <3>1, <3>2 DEF Outcome
  <2>4. ASSUME CancelRemaining(i), action' = "NORMAL" => N = 1 \/ \A j \in 1 .. N : ~Queued(j)
        PROVE  Outcome
    <3>1. CASE AllBack
      <4>1. Report(status') /\ UNCHANGED calls
        BY <2>4, <3>1 DEF CancelRemaining
      <4>2. live' = FALSE /\ report' # "none"
        BY <2>2, <4>1, Reported
      <4> QED
        BY <1>1, <1>2, <2>1, <2>2, <3>1, <4>1, <4>2 DEF Outcome
    <3>2. CASE ~AllBack
      <4>1. UNCHANGED <<live, report>> /\ down' = i + 1 /\ at' = N /\ pc' = "remaining"
            /\ UNCHANGED <<cancelled, picked, removed>>
        BY <2>4, <3>2 DEF CancelRemaining, GoesOn, DiscardFrom
      <4>2. i # N
        BY <1>3, <2>1, <3>2
      <4>3. down' \in 1 .. N /\ N # 1
        BY <1>1, <4>1, <4>2
      <4> QED
        BY <1>1, <2>1, <2>2, <2>4, <4>1, <4>3 DEF Outcome
    <3> QED
      BY <3>1, <3>2
  <2>5. CASE ended[i] = "overflow"
    <3>1. i = N
      BY <1>1, <2>5 DEF IInv, FaultInv
    <3> QED
      BY <1>5, <2>3, <2>5, <3>1 DEF NormalBulk
  <2>6. CASE ended[i] # "overflow" /\ Verdict(i) # "COMPLETED"
    <3>1. CancelRemaining(i) /\ action' = IF ended[i] = "proto" THEN "ERROR" ELSE action
      BY <1>5, <2>6 DEF NormalBulk
    <3>2. ended[i] \in {"gone", "stall", "proto"}
      BY <2>6 DEF Verdict
    <3>3. CASE ended[i] = "proto"
      BY <2>4, <3>1, <3>3
    <3>4. CASE ended[i] = "gone"
      <4>1. \A j \in 1 .. N : ~Queued(j)
        BY <1>1, <3>4 DEF IInv, FaultInv
      <4> QED
        BY <2>4, <3>1, <4>1
    <3>5. CASE ended[i] = "stall"
      <4>1. "stall" \in setup.faults /\ (Continues => blocked)
        BY <1>1, <3>5 DEF IInv, FaultInv
      <4>2. N > 1 => Continues
        BY <1>1, <4>1 DEF SetupsSound, Continues, N, Urbs, IInv, TypeInv
      <4>3. blocked => \A j \in 1 .. N : ~Queued(j)
        BY DEF IInv, FaultInv
      <4>4. N = 1 \/ N > 1
        BY <1>1
      <4> QED
        BY <2>4, <3>1, <4>1, <4>2, <4>3, <4>4
    <3> QED
      BY <3>2, <3>3, <3>4, <3>5
  <2>7. CASE ended[i] # "overflow" /\ Verdict(i) = "COMPLETED" /\ i = N
    <3>1. UNCHANGED <<action, calls>> /\ Report(status')
      BY <1>5, <2>7 DEF NormalBulk
    <3> QED
      BY <2>3, <2>7, <3>1
  <2>8. CASE ended[i] # "overflow" /\ Verdict(i) = "COMPLETED" /\ i # N
    <3>1. IF ShortEnds(i) THEN action' = "COMPLETED_EARLY" /\ CancelRemaining(i)
          ELSE GoesOn /\ UNCHANGED <<action, calls>>
      BY <1>5, <2>8 DEF NormalBulk
    <3>2. CASE ShortEnds(i)
      BY <2>4, <3>1, <3>2
    <3>3. CASE ~ShortEnds(i)
      BY <1>1, <2>1, <2>2, <3>1, <3>3 DEF Outcome, GoesOn
    <3> QED
      BY <3>2, <3>3
  <2> QED
    BY <2>5, <2>6, <2>7, <2>8
<1> QED
  BY <1>4, <1>5 DEF handle_bulk_completion
\* An iso transfer is reported by its last URB, or, after a refusal or a
\* cancellation, by the last to come back.
LEMMA IsoOutcome ==
  ASSUME IInv, reaped # 0, pc = "idle", live, handle_iso_completion(reaped)
  PROVE  Outcome
<1>1. /\ setup.type = "iso" /\ retired' = retired + 1
      /\ UNCHANGED <<calls, action, status>> /\ status # "none" /\ N \in Nat
  BY DEF handle_iso_completion, IInv, EndInv, TypeInv
<1>2. AllBack <=> Handled \cup {reaped} \cup Unsent = 1 .. N
  BY <1>1, HandleFinds, CountedOut DEF AllBack
<1>3. CASE action # "NORMAL"
  <2>1. IF AllBack THEN Report("ERROR") ELSE GoesOn
    BY <1>3 DEF handle_iso_completion
  <2>2. AllBack => live' = FALSE /\ report' # "none"
    BY <2>1, Reported
  <2> QED
    BY <1>1, <1>2, <1>3, <2>1, <2>2 DEF Outcome, GoesOn
<1>4. CASE action = "NORMAL" /\ reaped = N
  <2>1. PICK st \in {"COMPLETED", "NO_DEVICE", "ERROR"} : Report(st)
    BY <1>4 DEF handle_iso_completion
  <2>2. live' = FALSE /\ report' # "none"
    BY <2>1, Reported
  <2>3. Handled \cup {reaped} \cup Unsent = 1 .. N
    BY <1>4, HandleFinds
  <2> QED
    BY <1>1, <1>4, <2>2, <2>3 DEF Outcome
<1>5. CASE action = "NORMAL" /\ reaped # N
  <2>1. GoesOn
    BY <1>5 DEF handle_iso_completion
  <2> QED
    BY <1>1, <1>5, <2>1 DEF Outcome, GoesOn
<1> QED
  BY <1>3, <1>4, <1>5

\* A control transfer has one URB.
LEMMA ControlOutcome ==
  ASSUME IInv, reaped # 0, pc = "idle", live, handle_control_completion(reaped)
  PROVE  Outcome
<1>1. /\ setup.type = "control" /\ UNCHANGED <<action, calls, retired, status>>
      /\ status # "none" /\ N = 1 /\ reaped \in 1 .. N
  BY HandleFinds DEF handle_control_completion, IInv, EndInv, CountInv
<1>2. Report(IF ended[reaped] = "cancelled" THEN "CANCELLED" ELSE Verdict(reaped))
  BY DEF handle_control_completion
<1>3. live' = FALSE /\ report' # "none"
  BY <1>2, VerdictGiven, Reported
<1>4. Handled \cup {reaped} \cup Unsent = 1 .. N
  BY <1>1, HandleFinds
<1> QED
  BY <1>1, <1>3, <1>4 DEF Outcome

\* With that outcome the invariant holds again.
LEMMA HandleStep == ASSUME SetupsSound, IInv, Handle PROVE IInv'
<1>0. /\ reaped # 0 /\ pc = "idle" /\ live /\ reaped' = 0
      /\ UNCHANGED <<setup, urb, ended, actual, completed, halted, blocked, present, sent>>
  BY DEF Handle
<1>1. Outcome
  <2>1. CASE handle_bulk_completion(reaped)
    BY <1>0, <2>1, BulkOutcome
  <2>2. CASE handle_iso_completion(reaped)
    BY <1>0, <2>2, IsoOutcome
  <2>3. CASE handle_control_completion(reaped)
    BY <1>0, <2>3, ControlOutcome
  <2> QED
    BY <2>1, <2>2, <2>3 DEF Handle
<1> USE DEF IInv
<1>2. /\ N' = N /\ N \in Nat /\ Continues' = Continues
      /\ reaped \in 1 .. N /\ urb[reaped] = "reaped" /\ ~removed
  BY <1>0, SameTransfer, HandleFinds DEF TypeInv
<1>3. /\ \/ UNCHANGED <<live, report>>
         \/ live' = FALSE /\ report' # "none" /\ Handled \cup {reaped} \cup Unsent = 1 .. N
      /\ \/ UNCHANGED <<pc, at, down>>
         \/ /\ pc' = "remaining" /\ down' \in 1 .. N /\ at' = N /\ live'
            /\ action' = "NORMAL" => \A j \in 1 .. N : ~Queued(j)
      /\ picked' = picked /\ removed' = removed
      /\ action' = "NORMAL" => action = "NORMAL"
      /\ setup.type = "control" => live' = FALSE /\ retired' = retired
      /\ setup.type # "control" => retired' = retired + 1
      /\ status' # "none"
  BY <1>0, <1>1 DEF Outcome, calls
<1>4. Handled' = Handled \cup {reaped} /\ Unsent' = Unsent
  <2>1. \A j \in 1 .. N : (urb'[j] = "reaped" /\ j # reaped') <=> j \in Handled \/ j = reaped
    BY <1>0, <1>2 DEF Handled
  <2> QED
    BY <1>0, <1>2, <2>1 DEF Handled, Unsent
<1>5. TypeInv'
  <2>1. reaped' \in 0 .. N /\ retired' \in Nat
    BY <1>0, <1>2, <1>3 DEF TypeInv
  <2>2. live' \in BOOLEAN /\ pc' \in {"idle", "remaining"}
    BY <1>0, <1>3
  <2> QED
    BY <1>0, <1>2, <2>1, <2>2 DEF TypeInv
<1>6. PlaceInv'
  <2>1. pc' \in {"idle", "remaining"}
    BY <1>0, <1>3
  <2>2. pc' = "remaining" => /\ down' \in 1 .. N /\ at' \in down' .. N /\ live'
                             /\ action' = "NORMAL" => \A j \in 1 .. N : ~Queued(j)'
    BY <1>0, <1>2, <1>3 DEF Queued
  <2> QED
    BY <1>2, <2>1, <2>2 DEF PlaceInv
<1>7. ListInv' /\ OrderInv'
  BY <1>0, <1>2, <1>3 DEF ListInv, OrderInv
<1>8. CountInv'
  <2>1. setup.type # "control" => retired' = Cardinality(Handled') + Cardinality(Unsent')
    BY <1>0, <1>3, <1>4, HandleFinds
  <2> QED
    BY <1>0, <1>2, <1>3, <2>1 DEF CountInv
<1>9. FaultInv'
  BY <1>0, <1>2, <1>3 DEF FaultInv, Queued
<1>10. EndInv'
  BY <1>0, <1>2, <1>3 DEF EndInv
<1>11. ReportedWhenAllBack'
  <2> SUFFICES ASSUME ~live' PROVE ReportedWhenAllBack'
    BY DEF ReportedWhenAllBack
  <2>1. Handled' \cup Unsent' = 1 .. N
    BY <1>0, <1>3, <1>4
  <2>2. \A j \in 1 .. N : urb'[j] \in {"reaped", "none"}
    BY <1>2, <2>1 DEF Handled, Unsent
  <2> QED
    BY <1>0, <1>2, <2>2 DEF ReportedWhenAllBack
<1> QED
  BY <1>5, <1>6, <1>7, <1>8, <1>9, <1>10, <1>11

\* The device is found to be gone: its fd is no longer polled, and then the
\* transfer is ended.
LEMMA DisconnectStep == ASSUME IInv, Disconnect PROVE IInv'
<1> USE DEF IInv
<1>0. /\ N' = N /\ Continues' = Continues /\ ~present /\ reaped = 0 /\ removed' = TRUE
      /\ UNCHANGED <<setup, pc, at, down, urb, ended, completed, blocked, present, reaped,
                     live, retired, action, status, report>>
  BY SameTransfer DEF Disconnect, kernel, priv
<1>1. Handled' = Handled /\ Unsent' = Unsent
  BY <1>0 DEF Handled, Unsent
<1>2. TypeInv' /\ PlaceInv' /\ ListInv' /\ OrderInv'
  BY <1>0, <1>1 DEF TypeInv, PlaceInv, ListInv, OrderInv, Queued
<1>3. CountInv' /\ FaultInv' /\ EndInv'
  BY <1>0, <1>1 DEF CountInv, FaultInv, EndInv, Queued
<1>4. ReportedWhenAllBack'
  BY <1>0 DEF ReportedWhenAllBack
<1> QED
  BY <1>2, <1>3, <1>4

\* usbi_handle_disconnect ends the transfer: nobody asks for its URBs any more.
LEMMA ClearStep == ASSUME IInv, op_clear_transfer_priv PROVE IInv'
<1> USE DEF IInv
<1>0. /\ N' = N /\ Continues' = Continues /\ picked /\ pc = "idle" /\ picked' = FALSE
      /\ live' = FALSE /\ report' = "NO_DEVICE"
      /\ UNCHANGED <<setup, pc, at, down, removed, urb, ended, completed, blocked, present,
                     reaped, retired, action, status>>
  BY SameTransfer DEF op_clear_transfer_priv, kernel
<1>1. removed /\ ~present /\ reaped = 0 /\ \A i \in 1 .. N : ~Queued(i)
  BY <1>0 DEF EndInv, FaultInv
<1>2. TypeInv' /\ PlaceInv'
  BY <1>0 DEF TypeInv, PlaceInv
<1>3. ListInv' /\ OrderInv'
  BY <1>0 DEF ListInv, OrderInv
<1>4. CountInv' /\ FaultInv' /\ EndInv'
  BY <1>0, <1>1 DEF CountInv, FaultInv, EndInv, Queued
<1>5. ReportedWhenAllBack'
  BY <1>0, <1>1 DEF ReportedWhenAllBack, Queued
<1> QED
  BY <1>2, <1>3, <1>4, <1>5

\* A step of nobody.
LEMMA StutterStep == ASSUME IInv, UNCHANGED vars PROVE IInv'
<1> USE DEF IInv
<1>0. /\ N' = N /\ Continues' = Continues
      /\ UNCHANGED <<setup, pc, at, down, picked, removed, urb, ended, completed, blocked,
                     present, reaped, live, retired, action, status, report>>
  BY SameTransfer DEF vars, calls, kernel, priv
<1>1. Handled' = Handled /\ Unsent' = Unsent
  BY <1>0 DEF Handled, Unsent
<1>2. TypeInv' /\ ListInv' /\ OrderInv'
  BY <1>0 DEF TypeInv, ListInv, OrderInv
<1>3. PlaceInv'
  BY <1>0, <1>1 DEF PlaceInv, Queued
<1>4. CountInv' /\ FaultInv' /\ EndInv' /\ ReportedWhenAllBack'
  BY <1>0, <1>1 DEF CountInv, FaultInv, EndInv, ReportedWhenAllBack, Queued
<1> QED
  BY <1>2, <1>3, <1>4

\* The invariant is inductive.
LEMMA NextStep == ASSUME SetupsSound, IInv, [Next]_vars PROVE IInv'
<1>1. CASE KernelCompletes \/ Unplug
  BY <1>1, KernelStep, UnplugStep
<1>2. CASE Submit \/ DiscardRefused \/ discard_urbs \/ op_cancel_transfer
  BY <1>2, SubmitStep, DiscardStarts, DiscardStep
<1>3. CASE op_handle_events
  BY <1>3, ReapStep, HandleStep, DisconnectStep, ClearStep
     DEF op_handle_events, reap_for_handle
<1>4. CASE UNCHANGED vars
  BY <1>4, StutterStep
<1> QED
  BY <1>1, <1>2, <1>3, <1>4 DEF Next

\* When the user hears of the end of a transfer, and may free it, no URB of it is
\* left in the kernel (linux_usbfs.c, handle_bulk_completion: "cancel remaining
\* urbs and wait for their completion before reporting results"): for every
\* transfer, however many URBs it is split into, except that an unchained split
\* must not stall.
THEOREM EveryUrbBack == ASSUME SetupsSound PROVE Spec => []ReportedWhenAllBack
<1>1. Init => IInv
  BY InitInv
<1>2. IInv /\ [Next]_vars => IInv'
  BY NextStep
<1>3. IInv => ReportedWhenAllBack
  BY DEF IInv
<1> QED
  BY <1>1, <1>2, <1>3, PTL DEF Spec
=============================================================================
