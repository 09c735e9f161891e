-------------------------- MODULE NatTesterSession --------------------------
(***************************************************************************)
(* A session of the Android application: NatTesterActivity on the main     *)
(* thread, one test thread per press of Start (the Thread of startTest,    *)
(* which runs StunClientInstaller, WifiConfigurationHelper and StunTester) *)
(* and the message queue through which they reach the activity.            *)
(*                                                                         *)
(* Every thread writes its report to the same file through a stream of its *)
(* own, and copies it to the same file on the SD card.  A report has a     *)
(* section per test: section 0 is the head and the jstun test, section c   *)
(* the c-th run of stunclient, and the last section the summary.  A file   *)
(* holds the first `length' sections of the report of run `of', or is      *)
(* spoilt: empty, incomplete or a mixture of reports.                      *)
(***************************************************************************)
EXTENDS Integers, Sequences

CONSTANTS
    Clients,         \* the number of runs of stunclient in a test (14)
    MaxRuns,         \* bound: how often Start is pressed
    MaxActivities    \* bound: how often the activity is created

ASSUME SessionAssumption == /\ Clients \in Nat \ {0}
                            /\ MaxRuns \in Nat \ {0}
                            /\ MaxActivities \in Nat \ {0}

Runs      == 1 .. MaxRuns
Summary   == Clients + 1
Sections  == 0 .. Summary
File      == [of : 0 .. MaxRuns, length : 0 .. Summary + 1]
Report(r) == [of |-> r, length |-> Summary + 1]
Spoilt    == [of |-> 0, length |-> 0]

VARIABLES
    process,        \* the application is running
    activity,       \* the activity on the screen, numbered as created
    isRunning, testThread, btSendMail, result,    \* its fields, testThread 0 for null
    queue,          \* the messages for the handlers, in the main thread's queue
    thread,         \* the test thread of each run
    workingFile, resultFile,
    wifi,
    lastRun,        \* history: the last run started
    alone,          \* history: it was started with no other alive or unheard
    ioFailed        \* history: it has swallowed a write error

activityVars == <<process, activity, isRunning, testThread, btSendMail, result>>
fileVars     == <<workingFile, resultFile, ioFailed>>
startVars    == <<lastRun, alone>>
vars == <<activityVars, queue, thread, startVars, fileVars, wifi>>

(* Where a test thread is; whose handler it posts to; what the broadcast   *)
(* has told it; the section it writes next; its stream, null or not.       *)
(* testAll's count of failures is text of the summary and left out.        *)
Thread == [pc : {"None", "Install", "DisableWifi", "WifiWait", "OpenFile", "TestAll",
                 "Close", "Complete"},
           handler : 0 .. MaxActivities, isDone : BOOLEAN, section : 0 .. Summary + 1,
           fos : BOOLEAN]
NoThread == [pc |-> "None", handler |-> 0, isDone |-> FALSE, section |-> 0,
             fos |-> FALSE]

Alive(r) == thread[r].pc # "None"
Post(r, what, s) ==
    queue' = Append(queue, [to |-> thread[r].handler, run |-> r, what |-> what, section |-> s])
Queued(r, what) == \E i \in 1 .. Len(queue) : queue[i].run = r /\ queue[i].what = what

Init ==
    /\ process = FALSE
    /\ activity = 0
    /\ isRunning = FALSE /\ testThread = 0 /\ btSendMail = FALSE /\ result = <<>>
    /\ queue = <<>>
    /\ thread = [r \in Runs |-> NoThread]
    /\ workingFile = Spoilt /\ resultFile = Spoilt
    /\ wifi \in {"on", "off"}
    /\ lastRun = 0
    /\ alone = TRUE
    /\ ioFailed = FALSE

-----------------------------------------------------------------------------
(* The main thread                                                         *)

ClearActivity ==
    isRunning' = FALSE /\ testThread' = 0 /\ btSendMail' = FALSE /\ result' = <<>>

(* onCreate, when the user starts the application, or returns to it after  *)
(* he has left the activity: its threads are still there                   *)
OnCreate ==
    /\ activity < MaxActivities
    /\ process' = TRUE
    /\ activity' = activity + 1
    /\ ClearActivity
    /\ UNCHANGED <<queue, thread, startVars, fileVars, wifi>>

(* An exception nobody catches ends the process, with all its threads      *)
ProcessEnds ==
    /\ process' = FALSE
    /\ ClearActivity
    /\ queue' = <<>>
    /\ thread' = [r \in Runs |-> NoThread]
    /\ UNCHANGED <<activity, startVars, resultFile, ioFailed, wifi>>

Die == ProcessEnds /\ UNCHANGED workingFile

(* Mutant: the text of the last run is not cleared                         *)
StartTestKeepsResult ==
    /\ process /\ ~isRunning
    /\ lastRun < MaxRuns
    /\ lastRun' = lastRun + 1
    /\ alone' = (queue = <<>> /\ \A r \in Runs : ~Alive(r))
    /\ ioFailed' = FALSE
    /\ btSendMail' = FALSE
    /\ testThread' = lastRun'
    /\ thread' = [thread EXCEPT ![lastRun'].pc = "Install", ![lastRun'].handler = activity]
    /\ isRunning' = TRUE
    /\ UNCHANGED <<process, activity, result, queue, workingFile, resultFile, wifi>>

(* onStartStop with no test running: startTest                             *)
StartTest ==
    /\ process /\ ~isRunning
    /\ lastRun < MaxRuns
    /\ lastRun' = lastRun + 1
    /\ alone' = (queue = <<>> /\ \A r \in Runs : ~Alive(r))
    /\ ioFailed' = FALSE
    /\ btSendMail' = FALSE
    /\ result' = <<>>
    /\ testThread' = lastRun'
    /\ thread' = [thread EXCEPT ![lastRun'].pc = "Install", ![lastRun'].handler = activity]
    /\ isRunning' = TRUE
    /\ UNCHANGED <<process, activity, queue, workingFile, resultFile, wifi>>

(* onStartStop with a test running: stopTest, where Thread.stop ends the   *)
(* thread at any point, after which what it has posted is still queued     *)
StopTest ==
    /\ process /\ isRunning
    /\ thread' = [thread EXCEPT ![testThread] = NoThread]
    /\ testThread' = 0
    /\ isRunning' = FALSE
    /\ UNCHANGED <<process, activity, btSendMail, result, queue, startVars, fileVars,
                   wifi>>

(* or, as on Android, is not supported and throws                          *)
StopTestThrows == process /\ isRunning /\ Die

(* handleMessage.  A message for an activity the user has left still       *)
(* reaches it, unseen.                                                     *)
HandleProgress ==
    /\ process /\ queue # <<>> /\ Head(queue).what = "PROGRESS_TEST"
    /\ result' = IF Head(queue).to = activity
                 THEN Append(result, <<Head(queue).run, Head(queue).section>>) ELSE result
    /\ queue' = Tail(queue)
    /\ UNCHANGED <<process, activity, isRunning, testThread, btSendMail, thread,
                   startVars, fileVars, wifi>>

(* Mutant: the end of a test leaves the thread in its field                *)
HandleCompleteShown ==
    /\ process /\ queue # <<>> /\ Head(queue).what = "COMPLETE_TEST"
    /\ IF Head(queue).to = activity THEN btSendMail' = TRUE ELSE UNCHANGED btSendMail
    /\ queue' = Tail(queue)
    /\ UNCHANGED <<process, activity, isRunning, testThread, result, thread, startVars,
                   fileVars, wifi>>

HandleComplete ==
    /\ process /\ queue # <<>> /\ Head(queue).what = "COMPLETE_TEST"
    /\ IF Head(queue).to = activity
       THEN isRunning' = FALSE /\ testThread' = 0 /\ btSendMail' = TRUE
       ELSE UNCHANGED <<isRunning, testThread, btSendMail>>
    /\ queue' = Tail(queue)
    /\ UNCHANGED <<process, activity, result, thread, startVars, fileVars, wifi>>

-----------------------------------------------------------------------------
(* The test thread                                                         *)

At(r, here)    == process /\ thread[r].pc = here
GoTo(r, there) == thread' = [thread EXCEPT ![r].pc = there, ![r].isDone = FALSE]

(* StunClientInstaller.install: whether the program is there afterwards,   *)
(* and may be run, is neither looked at nor waited for                     *)
Install(r) ==
    /\ At(r, "Install")
    /\ GoTo(r, "DisableWifi")
    /\ UNCHANGED <<activityVars, queue, startVars, fileVars, wifi>>

(* setWifEnabledAndWait(false): the request may be refused                 *)
DisableWifi(r) ==
    /\ At(r, "DisableWifi")
    /\ IF wifi = "off"
       THEN GoTo(r, "OpenFile") /\ UNCHANGED wifi
       ELSE GoTo(r, "WifiWait") /\ wifi' \in {wifi, "stopping"}
    /\ UNCHANGED <<activityVars, queue, startVars, fileVars>>

WifiDone(r) ==
    /\ At(r, "WifiWait")
    /\ thread[r].isDone
    /\ GoTo(r, "OpenFile")
    /\ UNCHANGED <<activityVars, queue, startVars, fileVars, wifi>>

(* Mutant: the wait has no limit                                           *)
WifiTimeoutNever(r) == WifiDone(r)

WifiTimeout(r) ==
    /\ At(r, "WifiWait")
    /\ ~thread[r].isDone
    /\ GoTo(r, "OpenFile")
    /\ UNCHANGED <<activityVars, queue, startVars, fileVars, wifi>>

(* Opening the report empties it, also under a thread that is writing it   *)
Opened(r, opened) ==
    workingFile' = IF opened THEN [of |-> r, length |-> 0] ELSE workingFile

(* The report is opened, or not; getLocation then only logs what it finds  *)
OpenFile(r) ==
    /\ At(r, "OpenFile")
    /\ \E opened \in BOOLEAN :
         /\ Opened(r, opened)
         /\ thread' = [thread EXCEPT ![r].pc = "TestAll", ![r].fos = opened]
    /\ UNCHANGED <<activityVars, queue, startVars, resultFile, ioFailed, wifi>>

(* or no location provider is enabled, and getLastKnownLocation(null)      *)
(* throws                                                                  *)
NoLocationProvider(r) ==
    /\ At(r, "OpenFile")
    /\ \E opened \in BOOLEAN : Opened(r, opened)
    /\ ProcessEnds

(* A pass of testAll ends with the output of its test and a message.       *)
(* writeOutput swallows every exception: that of a stream that is null,    *)
(* and that of a full disk.                                                *)
WriteSection(r, what) ==
    /\ IF ~thread[r].fos THEN UNCHANGED <<workingFile, ioFailed>>
       ELSE \/ /\ workingFile' = IF workingFile = [of |-> r, length |-> thread[r].section]
                                  THEN [workingFile EXCEPT !.length = @ + 1] ELSE Spoilt
               /\ UNCHANGED ioFailed
            \/ workingFile' = Spoilt /\ ioFailed' = (ioFailed \/ r = lastRun)
    /\ Post(r, what, thread[r].section)
    /\ UNCHANGED <<activityVars, startVars, resultFile, wifi>>

TestJstun(r) ==
    /\ At(r, "TestAll") /\ thread[r].section = 0
    /\ WriteSection(r, "PROGRESS_TEST")
    /\ thread' = [thread EXCEPT ![r].section = 1]

(* execute fails when the program cannot be started, or its output not be  *)
(* read, and the test goes on with the next                                *)
Execute(r) ==
    /\ At(r, "TestAll") /\ thread[r].section \in 1 .. Clients
    /\ WriteSection(r, "PROGRESS_TEST")
    /\ thread' = [thread EXCEPT ![r].section = @ + 1]

(* Mutant: the end of the tests is announced as the end of the run         *)
SummariseCompletes(r) ==
    /\ At(r, "TestAll") /\ thread[r].section = Summary
    /\ WriteSection(r, "COMPLETE_TEST")
    /\ thread' = [thread EXCEPT ![r].section = @ + 1, ![r].pc = "Close"]

Summarise(r) ==
    /\ At(r, "TestAll") /\ thread[r].section = Summary
    /\ WriteSection(r, "PROGRESS_TEST")
    /\ thread' = [thread EXCEPT ![r].section = @ + 1, ![r].pc = "Close"]

(* Mutant: a test completes without its copy                               *)
CloseUncopied(r) ==
    /\ At(r, "Close") /\ thread[r].fos
    /\ GoTo(r, "Complete")
    /\ UNCHANGED <<activityVars, queue, startVars, fileVars, wifi>>

(* The stream is closed and unix2Dos copies the report to the SD card; its *)
(* failure is swallowed too, and may leave the old file or an empty one    *)
Close(r) ==
    /\ At(r, "Close") /\ thread[r].fos
    /\ GoTo(r, "Complete")
    /\ \/ resultFile' = workingFile /\ UNCHANGED ioFailed
       \/ resultFile' \in {resultFile, Spoilt} /\ ioFailed' = (ioFailed \/ r = lastRun)
    /\ UNCHANGED <<activityVars, queue, startVars, workingFile, wifi>>

(* The report was never opened: fos is null, and the close is unguarded    *)
CloseNull(r) == At(r, "Close") /\ ~thread[r].fos /\ Die

Complete(r) ==
    /\ At(r, "Complete")
    /\ Post(r, "COMPLETE_TEST", Summary)
    /\ thread' = [thread EXCEPT ![r] = NoThread]
    /\ UNCHANGED <<activityVars, startVars, fileVars, wifi>>

-----------------------------------------------------------------------------
(* The system                                                              *)

WifiStops ==
    /\ wifi = "stopping"
    /\ wifi' = "off"
    /\ UNCHANGED <<activityVars, queue, thread, startVars, fileVars>>

(* The receiver takes any broadcast about the supplicant, of a connection  *)
(* lost or made                                                            *)
OnReceive(r) ==
    /\ At(r, "WifiWait") /\ ~thread[r].isDone
    /\ thread' = [thread EXCEPT ![r].isDone = TRUE]
    /\ UNCHANGED <<activityVars, queue, startVars, fileVars, wifi>>

Handle == HandleProgress \/ HandleComplete

ThreadStep(r) ==
    \/ Install(r) \/ DisableWifi(r) \/ WifiDone(r) \/ WifiTimeout(r)
    \/ OpenFile(r) \/ NoLocationProvider(r)
    \/ TestJstun(r) \/ Execute(r) \/ Summarise(r)
    \/ Close(r) \/ CloseNull(r) \/ Complete(r)

Next ==
    \/ OnCreate \/ StartTest \/ StopTest \/ StopTestThrows
    \/ HandleProgress \/ HandleComplete
    \/ \E r \in Runs : \/ Install(r) \/ DisableWifi(r) \/ WifiDone(r) \/ WifiTimeout(r)
                       \/ OpenFile(r) \/ NoLocationProvider(r)
                       \/ TestJstun(r) \/ Execute(r) \/ Summarise(r)
                       \/ Close(r) \/ CloseNull(r) \/ Complete(r)
    \/ WifiStops
    \/ \E r \in Runs : OnReceive(r)

(* The threads run and the main thread handles its messages; stunclient    *)
(* ends (UdpClientLoop, TcpClientLoop).  Nothing is assumed of the system. *)
Fairness == WF_vars(Handle) /\ \A r \in Runs : WF_vars(ThreadStep(r))

Spec == Init /\ [][Next]_vars /\ Fairness

-----------------------------------------------------------------------------
(* The button offers Stop only while there is something to stop, or its    *)
(* end is on the way: whatever stale messages of earlier runs arrive, the  *)
(* activity never believes in a run that is over.                          *)
StopMeansRunning ==
    isRunning => /\ testThread # 0
                 /\ Alive(testThread) \/ Queued(testThread, "COMPLETE_TEST")

(* A run started with no earlier one alive or unheard cannot be joined by  *)
(* another from its activity: as long as its thread lives, the button      *)
(* offers Stop.                                                            *)
CannotStartTwice ==
    \A r \in Runs :
        (r = lastRun /\ alone /\ Alive(r) /\ thread[r].handler = activity) => isRunning

(* What the screen shows of such a run are its tests, each once and in     *)
(* order, however far the main thread lags behind the test thread.         *)
ShownInOrder ==
    alone => \A i \in 1 .. Len(result) : result[i] = <<lastRun, i - 1>>

(* When the mail button appears after such a run, the file it will send is *)
(* the whole report of that run and nothing else, unless a write failed.   *)
MailsOwnReport ==
    (btSendMail /\ alone) => resultFile = Report(lastRun) \/ ioFailed

(* A running test ends: by itself, or with the process.                    *)
TestEnds == isRunning ~> ~isRunning

(* startTest: "wifi is switched off" before the tests                      *)
WifiOffDuringTests == \A r \in Runs : thread[r].pc = "TestAll" => wifi = "off"
=============================================================================
