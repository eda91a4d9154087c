------------------------------- MODULE ChkStat -------------------------------
(***************************************************************************)
(* chkstat.py of farm-manager: worker threads take the miners off one queue, ask each *)
(* for four reports and store what they get; when all have ended chkstat makes a row of   *)
(* the table for each miner.  What a report says is left out, and so is the length of the *)
(* timeouts: a connection or a read is answered or it is not.                            *)
(***************************************************************************)
EXTENDS Integers, Sequences, SequencesExt

CONSTANTS
  Threads,
  Miners,       \* how many, each with one port
  Reports,      \* of the four, the first so many are read: the table hangs on the first two
  Retry

\* With no thread nobody reads the queue.
ChkStatAssumption ==
  Threads # {} /\ {Miners, Retry} \subseteq Nat \ {0} /\ Reports \in 2 .. 4

VARIABLES
  miner_queue,
  worker,       \* of a thread: "get", "connect", "read" or "ended", the miner, the try, tmp
  data0,        \* of each miner: which of the reports came; <<>>: nothing stored
  rows,         \* data: the table, as far as it goes
  main,         \* "join", "analyze", "done" or "crashed"
  asked         \* of each miner: the workers that have asked it, and what it has answered

svars == <<miner_queue, worker, data0, rows, main, asked>>

\* In the order they are read: summary, devs, stats, pools.
Summary == 1
Devs == 2

Miner == 1 .. Miners

Init ==
  /\ miner_queue = [i \in Miner |-> i]
  /\ worker = [t \in Threads |-> [at |-> "get", miner |-> 0, try |-> 0, tmp |-> <<>>]]
  /\ data0 = [i \in Miner |-> <<>>] /\ rows = <<>> /\ main = "join"
  /\ asked = [i \in Miner |-> [times |-> 0, answered |-> {}]]

Goes(t, at, try, tmp) ==
  worker' = [worker EXCEPT ![t].at = at, ![t].try = try, ![t].tmp = tmp]

Get(t) ==
  /\ worker[t].at = "get"
  /\ IF miner_queue = <<>>
       THEN Goes(t, "ended", 0, <<>>) /\ UNCHANGED <<miner_queue, asked>>
       ELSE /\ worker' = [worker EXCEPT ![t] =
                            [at |-> "connect", miner |-> Head(miner_queue), try |-> 0, tmp |-> <<>>]]
            /\ miner_queue' = Tail(miner_queue)
            /\ asked' = [asked EXCEPT ![Head(miner_queue)].times = @ + 1]
  /\ UNCHANGED <<data0, rows, main>>

AfterSkip_Break == "ended"

\* continue.
AfterSkip == "get"

Store(t, tmp) == data0' = [data0 EXCEPT ![worker[t].miner] = tmp]

Connect(t) ==
  /\ worker[t].at = "connect"
  /\ LET try == worker[t].try + 1 IN
     \/ Goes(t, "read", 0, <<>>) /\ UNCHANGED data0
     \/ try < Retry /\ Goes(t, "connect", try, <<>>) /\ UNCHANGED data0
     \/ try = Retry /\ Goes(t, AfterSkip, 0, <<>>) /\ Store(t, [r \in 1 .. Reports |-> FALSE])
  /\ UNCHANGED <<miner_queue, rows, main, asked>>

\* apiread: one report, and after the last all are stored.
Got(t, ok) ==
  LET tmp == Append(worker[t].tmp, ok) IN
  IF Len(tmp) = Reports THEN Goes(t, "get", 0, <<>>) /\ Store(t, tmp)
                        ELSE Goes(t, "read", 0, tmp) /\ UNCHANGED data0

apiread(t) ==
  /\ worker[t].at = "read"
  /\ LET try == worker[t].try + 1 IN
     \/ /\ Got(t, TRUE)
        /\ asked' = [asked EXCEPT ![worker[t].miner].answered = @ \cup {Len(worker[t].tmp) + 1}]
     \/ try < Retry /\ Goes(t, "read", try, worker[t].tmp) /\ UNCHANGED <<data0, asked>>
     \/ try = Retry /\ Got(t, FALSE) /\ UNCHANGED asked
  /\ UNCHANGED <<miner_queue, rows, main>>

Worker(t) == Get(t) \/ Connect(t) \/ apiread(t)

Join ==
  /\ main = "join" /\ \A t \in Threads : worker[t].at = "ended"
  /\ main' = "analyze" /\ UNCHANGED <<miner_queue, worker, data0, rows, asked>>

\* A miner is dead when devs is None; where summary is not what it should be, two of its
\* four fields are read without a net.
Row(d) == IF d # <<>> /\ ~d[Devs] THEN "Dead" ELSE "Alive"
Raises(d) == Row(d) = "Alive" /\ (d = <<>> \/ ~d[Summary])

Analyze ==
  /\ main = "analyze"
  /\ LET i == Len(rows) + 1 IN
     IF i > Miners THEN main' = "done" /\ UNCHANGED rows
     ELSE IF Raises(data0[i]) THEN main' = "crashed" /\ UNCHANGED rows
     ELSE rows' = Append(rows, Row(data0[i])) /\ UNCHANGED main
  /\ UNCHANGED <<miner_queue, worker, data0, asked>>

Next == (\E t \in Threads : Worker(t)) \/ Join \/ Analyze

Spec == Init /\ [][Next]_svars

FairSpec == Spec /\ (\A t \in Threads : WF_svars(Worker(t))) /\ WF_svars(Join \/ Analyze)

-----------------------------------------------------------------------------
\* Every miner is asked by one worker, its row says what it has answered, and the table is
\* only missing when a miner has given its devs and no summary.
TableIsTrue ==
  /\ \A i \in Miner : asked[i].times <= 1
  /\ \A i \in DOMAIN rows : (rows[i] = "Alive") = (Devs \in asked[i].answered)
  /\ main = "done" => Len(rows) = Miners
  /\ main = "crashed" =>
       LET i == Len(rows) + 1 IN Devs \in asked[i].answered /\ Summary \notin asked[i].answered

Ended == main \in {"done", "crashed"}
=============================================================================
