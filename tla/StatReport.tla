----------------------------- MODULE StatReport -----------------------------
(***************************************************************************)
(* Reports of farm-manager, one after the other (statreport.py, chkblock.py,   *)
(* chkerr.py): each is compared with the last one that was logged, place by    *)
(* place.  What is not in the old log is not looked up, and the name keeps the  *)
(* value it had for the place before.  Hash rates, temperatures, fans and       *)
(* voltages are left out; of a module there is the number of local works.       *)
(***************************************************************************)
EXTENDS Integers, Sequences, SequencesExt, FiniteSets

CONSTANTS
  Miners,       \* host:port
  Configs,      \* miner_list and port_list: of each host the miners
  Devices,      \* dev_list: devices of each miner, with one module each
  MaxEvents,    \* bound: what happens to the miners and the configuration
  MaxReports    \* bound

StatReportAssumption ==
  /\ Configs \subseteq Seq(Seq(Miners))
  /\ \A cfg \in Configs : \A i \in DOMAIN cfg : cfg[i] # <<>> /\ IsInjective(FlattenSeq(cfg))
  /\ {Devices, MaxEvents, MaxReports} \subseteq Nat

VARIABLES
  cfg,
  farm,         \* of each miner: Found Blocks, local works; both since it was started
  data0,        \* the newest log; <<>>: there is none
  torn,         \* the newest log is not whole
  job,          \* the report under way: what it does next, and what it has for that
  announced,    \* of each miner the blocks in all mails (luckyID)
  untold,       \* history: those of reports that were logged and sent no mail
  ever,         \* of each miner the blocks it has found, through all restarts
  steady,       \* miners that answered every report so far, at the place they had before;
                \* and those of them that had all their modules
  since,        \* what each miner did since the newest log: "quiet", "worked", "restarted"
  events, reports

reportvars ==
  <<cfg, farm, data0, torn, job, announced, untold, ever, steady, since, events, reports>>

Fresh == [blocks |-> 0, works |-> 0]

Nothing == [m \in Miners |-> 0]

\* No report runs; one has checked what it found, and logs it next; then its mail is next.
Idle == [at |-> "none", data |-> <<>>, luckyID |-> Nothing, error_list |-> {}]
ToLog(data, luckyID, error_list) ==
  [at |-> "log", data |-> data, luckyID |-> luckyID, error_list |-> error_list]
ToMail == [Idle EXCEPT !.at = "mail", !.luckyID = job.luckyID]

Init ==
  /\ cfg \in Configs /\ farm = [m \in Miners |-> Fresh]
  /\ data0 = <<>> /\ torn = FALSE /\ job = Idle
  /\ announced = Nothing /\ untold = Nothing /\ ever = Nothing
  /\ steady = [alive |-> Miners, whole |-> Miners]
  /\ since = [m \in Miners |-> "restarted"]
  /\ events = 0 /\ reports = 0

\* What happens to the miners and the configuration.  A report that has its answers does not
\* look at them again, so that what happens while it runs may as well happen after it.
Event ==
  /\ job.at = "none" /\ events < MaxEvents /\ events' = events + 1
  /\ UNCHANGED <<data0, torn, job, announced, untold, steady, reports>>

Does(m, what) == since' = [since EXCEPT ![m] = IF @ = "restarted" THEN @ ELSE what]

Work(m) ==
  /\ farm' = [farm EXCEPT ![m].works = @ + 1] /\ Does(m, "worked")
  /\ Event /\ UNCHANGED <<cfg, ever>>

FindBlock(m) ==
  /\ farm' = [farm EXCEPT ![m] = [blocks |-> @.blocks + 1, works |-> @.works + 1]]
  /\ Does(m, "worked")
  /\ ever' = [ever EXCEPT ![m] = @ + 1]
  /\ Event /\ UNCHANGED cfg

Restart(m) ==
  /\ farm[m] # Fresh /\ farm' = [farm EXCEPT ![m] = Fresh] /\ Does(m, "restarted")
  /\ Event /\ UNCHANGED <<cfg, ever>>

EditConfig ==
  /\ cfg' \in Configs \ {cfg}
  /\ Event /\ UNCHANGED <<farm, ever, since>>

-----------------------------------------------------------------------------
\* What chkstat returns of a miner: nobody answers, or some of its devices are there, and of
\* those the modules, or no stats.
Dead(m) == [id |-> m, status |-> "Dead", dev |-> <<>>, block |-> 0, archive |-> 0]

Answers(m) ==
  {Dead(m)} \cup
    {[id |-> m, status |-> "Alive", dev |-> d, block |-> farm[m].blocks, archive |-> 0] :
       d \in {<<>>} \cup [1 .. Devices -> {<<>>, <<farm[m].works>>}]}

\* try: name = list[n] except: pass.
Try(list, n, name) == IF n \in DOMAIN list THEN list[n] ELSE name

Places(data) ==
  FlattenSeq([i \in DOMAIN data |-> [j \in DOMAIN data[i] |-> <<i, j>>]])

NoMiner == [dev |-> <<>>, block |-> 0, archive |-> 0]

\* miner0, when the loops have gone through these places.
Miner0(places) ==
  FoldLeft(LAMBDA s, at : LET mminer0 == Try(data0, at[1], s.mminer0) IN
                            [mminer0 |-> mminer0, miner0 |-> Try(mminer0, at[2], s.miner0)],
           [mminer0 |-> <<>>, miner0 |-> NoMiner], places).miner0

UpTo(data, at) == LET p == Places(data) IN SubSeq(p, 1, CHOOSE n \in DOMAIN p : p[n] = at)

Archive_Always(block, miner0) == miner0.archive + miner0.block

\* A miner with fewer blocks than before has been started again.
Archive(block, miner0) ==
  miner0.archive + IF block < miner0.block THEN miner0.block ELSE 0

Lucky(block, miner0) == IF block < miner0.block THEN block ELSE block - miner0.block

\* The rows with the blocks of the runs before, and luckyID.
chkblock(data) ==
  LET old(at) == Miner0(UpTo(data, at)) IN
  [data |-> [i \in DOMAIN data |-> [j \in DOMAIN data[i] |->
               [data[i][j] EXCEPT !.archive = Archive(data[i][j].block, old(<<i, j>>))]]],
   luckyID |-> [m \in Miners |->
                  FoldLeft(LAMBDA sum, at :
                             LET miner == data[at[1]][at[2]] IN
                             sum + IF miner.id = m THEN Lucky(miner.block, old(at)) ELSE 0,
                           0, Places(data))]]

\* The modules chkerr comes past, in order: host, miner, device (one module each).
ModuleVisits(data) ==
  FlattenSeq([n \in DOMAIN Places(data) |->
    LET at == Places(data)[n] dev == data[at[1]][at[2]].dev IN
    [k \in DOMAIN dev |-> <<at[1], at[2], k>>]])

\* dev_stat0 and lw0 when it has come to the end of these; -2: not yet set.
Old_Devices(data, visits) ==
  FoldLeft(LAMBDA s, v :
             LET dev_stat0 == Try(Miner0(UpTo(data, <<v[1], v[2]>>)).dev, v[3], s.dev_stat0) IN
             [dev_stat0 |-> dev_stat0,
              lw0 |-> IF data[v[1]][v[2]].dev[v[3]] = <<>> THEN s.lw0
                                                          ELSE Try(dev_stat0, 1, s.lw0)],
           [dev_stat0 |-> <<>>, lw0 |-> -2], visits)

\* Of the miners that answered, the modules that do no work any more and the devices that
\* are missing.
LocalWork(data, v) == data[v[1]][v[2]].dev[v[3]]

Stopped(data) ==
  LET visits == ModuleVisits(data) IN
  {visits[n] : n \in {n \in DOMAIN visits :
     LET lw == LocalWork(data, visits[n]) IN
     lw # <<>> /\ lw[1] = Old_Devices(data, SubSeq(visits, 1, n)).lw0}}

\* lw_avg is 0 when no module of the miner has done a work, and it is divided by.
DividesByZero(data) ==
  \E i \in DOMAIN data : \E j \in DOMAIN data[i] :
    LET works == FlattenSeq(data[i][j].dev) IN
    works # <<>> /\ \A n \in DOMAIN works : works[n] = 0

Message(data, at, msg) == [id |-> data[at[1]][at[2]].id, msg |-> msg]

\* Of a host where nobody answers there is one message.
chkerr(data) ==
  LET all(i) == \A j \in DOMAIN data[i] : data[i][j].status = "Dead"
      places == ToSet(Places(data))
  IN {Message(data, <<i, 1>>, "Host failed") : i \in {i \in DOMAIN data : all(i)}}
     \cup {Message(data, at, "Connection Failed") :
             at \in {at \in places : data[at[1]][at[2]].status = "Dead" /\ ~all(at[1])}}
     \cup {Message(data, at, "Missing Device") :
             at \in {at \in places : /\ data[at[1]][at[2]].status = "Alive"
                                     /\ Len(data[at[1]][at[2]].dev) < Devices}}
     \cup {Message(data, v, "Local work stopped") : v \in Stopped(data)}

-----------------------------------------------------------------------------
PlaceIn(data, m) == {at \in ToSet(Places(data)) : data[at[1]][at[2]].id = m}
RowOf(data, m) == LET at == CHOOSE at \in PlaceIn(data, m) : TRUE IN data[at[1]][at[2]]
AliveIn(data, m) == PlaceIn(data, m) # {} /\ RowOf(data, m).status = "Alive"

AsBefore(data, m) ==
  AliveIn(data, m) /\ (data0 # <<>> => PlaceIn(data, m) = PlaceIn(data0, m))

Whole(data, m) ==
  LET dev == RowOf(data, m).dev IN Len(dev) = Devices /\ \A k \in DOMAIN dev : dev[k] # <<>>

\* The newest log is read, which raises if it is not whole; then chkstat, chkblock and
\* chkerr.  (With -n nothing of this is done, nor is a log written or a block told of.)
Report ==
  /\ job.at = "none" /\ reports < MaxReports /\ reports' = reports + 1
  /\ \E answer \in {f \in [Miners -> UNION {Answers(m) : m \in Miners}] :
                      \A m \in Miners : f[m] \in Answers(m)} :
       LET data == [i \in DOMAIN cfg |-> [j \in DOMAIN cfg[i] |-> answer[cfg[i][j]]]]
           checked == chkblock(data)
       IN IF torn \/ DividesByZero(data)
            THEN UNCHANGED <<job, steady>>
            ELSE /\ job' = ToLog(checked.data, checked.luckyID, chkerr(checked.data))
                 /\ steady' = [alive |-> {m \in steady.alive : AsBefore(data, m)},
                               whole |-> {m \in steady.whole : AsBefore(data, m) /\ Whole(data, m)}]
  /\ UNCHANGED <<cfg, farm, data0, torn, announced, untold, ever, since, events>>

\* writelog opens the new file and writes it: all of it, or, when the disk is full or the
\* process is killed, not.
writelog ==
  /\ job.at = "log"
  /\ \/ /\ data0' = job.data /\ since' = [m \in Miners |-> "quiet"]
        /\ job' = ToMail /\ UNCHANGED torn
     \/ torn' = TRUE /\ job' = Idle /\ UNCHANGED <<data0, since>>
  /\ UNCHANGED <<cfg, farm, announced, untold, ever, steady, events, reports>>

Tell(told, count) == told' = [m \in Miners |-> told[m] + job.luckyID[m]] /\ UNCHANGED count

\* sendmail, if there is a luckyID or with -m: post returns whether the mail has gone, which
\* nobody looks at but the message.
sendmail ==
  /\ job.at = "mail" /\ job' = Idle
  /\ Tell(announced, untold) \/ Tell(untold, announced)
  /\ UNCHANGED <<cfg, farm, data0, torn, ever, steady, since, events, reports>>

\* Before the log is opened chkrate raises, or the process is killed; after it hsplot,
\* tmplot, renderpage or the template of the mail raises (with -w and not -t there is no
\* tmap_data).
Stop ==
  /\ job.at # "none" /\ job' = Idle
  /\ IF job.at = "log" THEN UNCHANGED <<announced, untold>> ELSE Tell(untold, announced)
  /\ UNCHANGED <<cfg, farm, data0, torn, ever, steady, since, events, reports>>

Next ==
  \/ \E m \in Miners : Work(m) \/ FindBlock(m) \/ Restart(m)
  \/ EditConfig
  \/ Report \/ writelog \/ sendmail \/ Stop

Spec == Init /\ [][Next]_reportvars

-----------------------------------------------------------------------------
\* Of a miner that answered every report, each at its place, no block is counted twice by
\* the log, and the mails have told of each block it counts once at most, though a report
\* may end anywhere: not yet of those of a report under way, and never of those of a report
\* that was logged and then raised or could not send its mail (statreport.py:62, 87).  And
\* its local work is said to have stopped when it has done none since the log before, and
\* only then, if all its modules were there.  (Who did not answer has its blocks counted
\* again, and who moved is compared with another.)
ReportsAreTrue ==
  /\ data0 # <<>> => \A m \in steady.alive :
       LET row == RowOf(data0, m)
           ontheway == IF job.at = "mail" THEN job.luckyID[m] ELSE 0
       IN /\ row.block + row.archive <= ever[m]
          /\ announced[m] + untold[m] + ontheway = row.block + row.archive
  /\ job.at = "log" => \A m \in steady.whole :
       since[m] # "restarted" =>
         ([id |-> m, msg |-> "Local work stopped"] \in job.error_list <=> since[m] = "quiet")
=============================================================================
