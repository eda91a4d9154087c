--------------------------------- MODULE Rtac ---------------------------------
(***************************************************************************)
(* rtac of farm-manager (rtac.py, rtacThread.py): worker threads take the hosts off one *)
(* queue and run a list of commands on each, over telnet or ssh.  A session that breaks is *)
(* followed by another one, from the first command; a command that was sent when it breaks  *)
(* may have been run.                                                                     *)
(***************************************************************************)
EXTENDS Integers, Sequences, FiniteSets, SequencesExt

CONSTANTS Threads, Hosts, Commands, Retry

RtacAssumption == {Hosts, Commands, Retry} \subseteq Nat \ {0}

VARIABLES
  hostQueue,
  worker,       \* of a thread: "get", "connect", "run" or "ended", the host, i, k and the
                \* command of the list it is at
  said,         \* of each host: what was printed last
  ran           \* of each host: the commands it has run, in order

rvars == <<hostQueue, worker, said, ran>>

Host == 1 .. Hosts

Init ==
  /\ hostQueue = [h \in Host |-> h]
  /\ worker = [t \in Threads |-> [at |-> "get", host |-> 0, i |-> 0, k |-> 0, c |-> 1]]
  /\ said = [h \in Host |-> "nothing"] /\ ran = [h \in Host |-> <<>>]

Says(t, words) == said' = [said EXCEPT ![worker[t].host] = words]

Get(t) ==
  /\ worker[t].at = "get"
  /\ IF hostQueue = <<>>
       THEN worker' = [worker EXCEPT ![t].at = "ended"] /\ UNCHANGED hostQueue
       ELSE /\ worker' = [worker EXCEPT ![t] =
                            [at |-> "connect", host |-> Head(hostQueue), i |-> 0, k |-> 0, c |-> 1]]
            /\ hostQueue' = Tail(hostQueue)
  /\ UNCHANGED <<said, ran>>

Connect(t) ==
  /\ worker[t].at = "connect"
  /\ \/ worker' = [worker EXCEPT ![t].at = "run", ![t].c = 1] /\ UNCHANGED said
     \/ /\ worker[t].k + 1 < Retry
        /\ worker' = [worker EXCEPT ![t].k = @ + 1] /\ Says(t, "cannot connect, again")
     \/ /\ worker[t].k + 1 = Retry
        /\ worker' = [worker EXCEPT ![t].at = "get"] /\ Says(t, "cannot connect, skip")
  /\ UNCHANGED <<hostQueue, ran>>

Executed(t) == ran' = [ran EXCEPT ![worker[t].host] = Append(@, worker[t].c)]

\* The next command, and with the last one the host is done.
AfterCommand(t) ==
  IF worker[t].c = Commands
    THEN worker' = [worker EXCEPT ![t].at = "get"] /\ Says(t, "complete")
    ELSE worker' = [worker EXCEPT ![t].c = @ + 1] /\ UNCHANGED said

Run(t) ==
  /\ worker[t].at = "run" /\ Executed(t) /\ AfterCommand(t)
  /\ UNCHANGED hostQueue

\* The next session, or after the last one the next host, without a word.
AfterLoss(t) ==
  LET i == worker[t].i + 1 IN
  IF i < Retry THEN [worker[t] EXCEPT !.at = "connect", !.i = i, !.k = 0]
               ELSE [worker[t] EXCEPT !.at = "get"]

Lost(t) ==
  /\ worker[t].at = "run"
  /\ Executed(t) \/ UNCHANGED ran
  /\ worker' = [worker EXCEPT ![t] = AfterLoss(t)] /\ Says(t, "lost, again")
  /\ UNCHANGED hostQueue

Worker(t) == Get(t) \/ Connect(t) \/ Run(t) \/ Lost(t)

Next == \E t \in Threads : Worker(t)

Spec == Init /\ [][Next]_rvars

FairSpec == Spec /\ \A t \in Threads : WF_rvars(Worker(t))

-----------------------------------------------------------------------------
Full == [c \in 1 .. Commands |-> c]
Sessions(h) == {n \in DOMAIN ran[h] : ran[h][n] = 1}

\* On every host the commands run in the order of the list, from the first again at most
\* Retry times; where it says complete, all have run to the end in one session, and a host
\* whose last word is a lost connection has had a session that broke.
CommandsInOrder ==
  \A h \in Host :
    /\ \A n \in DOMAIN ran[h] : ran[h][n] = IF n = 1 \/ ran[h][n] = 1 THEN 1 ELSE ran[h][n - 1] + 1
    /\ Cardinality(Sessions(h)) <= Retry
    /\ said[h] = "complete" => IsSuffix(Full, ran[h])

Ended == \A t \in Threads : worker[t].at = "ended"
=============================================================================
