----------------------- MODULE NatTesterSession_proofs -----------------------
(***************************************************************************)
(* What a session keeps to for any number of runs, activities and clients: *)
(* the button, the screen and the mail agree with the run they are about.  *)
(***************************************************************************)
EXTENDS NatTesterSession, TLAPS, SequenceTheorems

Message == [to : 0 .. MaxActivities, run : Runs,
            what : {"PROGRESS_TEST", "COMPLETE_TEST"}, section : Sections]

SessionTypeOK ==
    /\ activity \in 0 .. MaxActivities
    /\ lastRun \in 0 .. MaxRuns
    /\ queue \in Seq(Message)
    /\ thread \in [Runs -> Thread]
    /\ result \in Seq(Runs \X Sections)

Early == {"Install", "DisableWifi", "WifiWait", "OpenFile"}

(* How far testAll has come                                                *)
Counted(t) ==
    /\ t.pc \in Early \cup {"None"} => t.section = 0
    /\ t.pc = "TestAll" => t.section \in 0 .. Summary
    /\ t.pc \in {"Close", "Complete"} => t.section = Summary + 1

(* A thread is one of a run that was started, for an activity there was    *)
ThreadsOK ==
    \A r \in Runs :
        /\ Alive(r) \/ thread[r] = NoThread
        /\ r > lastRun => ~Alive(r)
        /\ thread[r].handler <= activity
        /\ Counted(thread[r])

(* So is a message, and a thread ends when it has announced its end        *)
MessagesOK ==
    \A i \in 1 .. Len(queue) :
        /\ queue[i].run <= lastRun /\ queue[i].to <= activity
        /\ queue[i].what = "COMPLETE_TEST" => ~Alive(queue[i].run)

(* A running test is the last one started, it reports to the activity on   *)
(* the screen, and it lives or has announced its end                       *)
ButtonOK ==
    isRunning =>
        /\ testThread = lastRun /\ lastRun \in Runs
        /\ Alive(lastRun) => thread[lastRun].handler = activity
        /\ \A i \in 1 .. Len(queue) : queue[i].run = lastRun => queue[i].to = activity
        /\ \/ Alive(lastRun)
           \/ \E i \in 1 .. Len(queue) :
                 queue[i].run = lastRun /\ queue[i].what = "COMPLETE_TEST"

(* A run that was started alone stays alone: all messages are its own, go  *)
(* to one activity, and the one that announces its end is the last         *)
AloneOK ==
    alone =>
        /\ \A r \in Runs : Alive(r) => r = lastRun
        /\ \A i \in 1 .. Len(queue) :
              /\ queue[i].run = lastRun
              /\ queue[i].what = "COMPLETE_TEST" => i = Len(queue)
              /\ \A j \in 1 .. Len(queue) : queue[j].to = queue[i].to
              /\ Alive(lastRun) => queue[i].to = thread[lastRun].handler

(* What is on the screen, in the queue and written next follow each other  *)
ShownOK ==
    alone =>
        /\ \A i \in 1 .. Len(result) : result[i] = <<lastRun, i - 1>>
        /\ \A i \in 1 .. Len(queue) :
              queue[i].to = activity /\ queue[i].what = "PROGRESS_TEST" =>
                  queue[i].section = Len(result) + i - 1
        /\ \A r \in Runs :
              r = lastRun /\ Alive(r) /\ thread[r].handler = activity =>
                  thread[r].section = Len(result) + Len(queue)

(* The report of such a run, in the making, copied, announced and mailed   *)
Copied == resultFile = Report(lastRun) \/ ioFailed
MailOK ==
    alone =>
        /\ \A r \in Runs :
              /\ r = lastRun /\ thread[r].pc \in {"TestAll", "Close"} /\ thread[r].fos =>
                    ioFailed \/ workingFile = [of |-> r, length |-> thread[r].section]
              /\ r = lastRun /\ thread[r].pc = "Complete" => Copied
        /\ \A i \in 1 .. Len(queue) : queue[i].what = "COMPLETE_TEST" => Copied
        /\ btSendMail => Copied

SessionInv ==
    /\ SessionTypeOK
    /\ ThreadsOK
    /\ MessagesOK
    /\ ButtonOK
    /\ AloneOK
    /\ CannotStartTwice
    /\ ShownOK
    /\ MailOK

-----------------------------------------------------------------------------
LEMMA Constants ==
    /\ Clients \in Nat /\ Clients > 0 /\ Summary = Clients + 1
    /\ MaxRuns \in Nat /\ MaxRuns > 0 /\ Runs = 1 .. MaxRuns
    /\ MaxActivities \in Nat /\ MaxActivities > 0
    /\ Sections = 0 .. Summary
BY SessionAssumption DEF Summary, Runs, Sections

LEMMA NoThreadOK == NoThread \in Thread /\ NoThread.pc = "None" /\ NoThread.handler = 0 /\ Counted(NoThread)
<1>1. 0 \in 0 .. MaxActivities /\ 0 \in 0 .. Summary + 1
  BY Constants
<1>2. NoThread \in Thread
  BY <1>1, Zenon DEF NoThread, Thread
<1>3. QED
  BY <1>2 DEF NoThread, Counted, Early

LEMMA MessageTypes ==
    ASSUME SessionTypeOK, NEW i \in 1 .. Len(queue)
    PROVE  /\ queue[i] \in Message
           /\ queue[i].run \in Runs /\ queue[i].run \in Nat /\ queue[i].run > 0
           /\ queue[i].to \in Nat
           /\ queue[i].what \in {"PROGRESS_TEST", "COMPLETE_TEST"}
<1>1. queue[i] \in Message
  BY ElementOfSeq DEF SessionTypeOK
<1>2. QED
  BY <1>1, Constants DEF Message

LEMMA InitSessionInv == Init => SessionInv
<1> SUFFICES ASSUME Init PROVE SessionInv
  OBVIOUS
<1>1. thread = [r \in Runs |-> NoThread] /\ activity = 0 /\ lastRun = 0 /\ queue = <<>>
      /\ result = <<>> /\ Len(queue) = 0 /\ Len(result) = 0
      /\ ~isRunning /\ ~btSendMail
  BY DEF Init
<1>2. SessionTypeOK
  BY <1>1, NoThreadOK, Constants, EmptySeq DEF SessionTypeOK
<1>3. \A r \in Runs : thread[r] = NoThread /\ ~Alive(r)
  BY <1>1, NoThreadOK DEF Alive
<1>4. ThreadsOK
  BY <1>1, <1>3, NoThreadOK DEF ThreadsOK
<1>5. MessagesOK /\ ButtonOK
  BY <1>1 DEF MessagesOK, ButtonOK
<1>6. AloneOK /\ CannotStartTwice /\ ShownOK
  BY <1>1, <1>3 DEF AloneOK, CannotStartTwice, ShownOK
<1>7. MailOK
  BY <1>1, <1>3, NoThreadOK DEF MailOK
<1>8. QED
  BY <1>2, <1>4, <1>5, <1>6, <1>7 DEF SessionInv

-----------------------------------------------------------------------------
(* The steps, by what they do to a session                                 *)

(* A step of the system, which no run sees, or none at all                 *)
LEMMA UnseenStep ==
    ASSUME SessionInv,
           UNCHANGED <<activityVars, queue, thread, startVars, fileVars>>
    PROVE  SessionInv'
<1>1. UNCHANGED <<activity, isRunning, testThread, btSendMail, result, queue, thread,
                  lastRun, alone, workingFile, resultFile, ioFailed>>
  BY DEF activityVars, startVars, fileVars
<1>2. SessionTypeOK' /\ ThreadsOK' /\ MessagesOK' /\ ButtonOK'
  BY <1>1 DEF SessionInv, SessionTypeOK, ThreadsOK, MessagesOK, ButtonOK, Alive
<1>3. AloneOK' /\ CannotStartTwice' /\ ShownOK' /\ MailOK'
  BY <1>1 DEF SessionInv, AloneOK, CannotStartTwice, ShownOK, MailOK, Alive, Copied
<1>4. QED
  BY <1>2, <1>3 DEF SessionInv

(* Nothing is left of a process that has died, whatever it did to the file *)
LEMMA DieStep ==
    ASSUME SessionInv, ProcessEnds
    PROVE  SessionInv'
<1>1. /\ ~isRunning' /\ ~btSendMail' /\ result' = <<>> /\ queue' = <<>>
      /\ thread' = [r \in Runs |-> NoThread]
      /\ UNCHANGED <<activity, lastRun, alone, resultFile, ioFailed>>
      /\ Len(queue') = 0 /\ Len(result') = 0
  BY DEF ProcessEnds, ClearActivity, startVars
<1>2. \A r \in Runs : thread'[r] = NoThread /\ thread'[r].pc = "None"
                        /\ thread'[r].handler = 0 /\ Counted(thread'[r])
  BY <1>1, NoThreadOK
<1>3. SessionTypeOK'
  BY <1>1, NoThreadOK, EmptySeq DEF SessionInv, SessionTypeOK
<1>4. ThreadsOK'
  BY <1>1, <1>2 DEF SessionInv, SessionTypeOK, ThreadsOK, Alive, Counted
<1>5. MessagesOK' /\ ButtonOK' /\ AloneOK' /\ CannotStartTwice' /\ ShownOK'
  BY <1>1, <1>2 DEF MessagesOK, ButtonOK, AloneOK, CannotStartTwice, ShownOK, Alive
<1>6. MailOK'
  BY <1>1, <1>2 DEF MailOK
<1>7. QED
  BY <1>3, <1>4, <1>5, <1>6 DEF SessionInv

(* The activity is new: no thread and no message is for it                 *)
LEMMA OnCreateStep ==
    ASSUME SessionInv, OnCreate
    PROVE  SessionInv'
<1>1. /\ ~isRunning' /\ ~btSendMail' /\ result' = <<>> /\ Len(result') = 0
      /\ activity' = activity + 1 /\ activity < MaxActivities
      /\ UNCHANGED <<queue, thread, lastRun, alone, workingFile, resultFile, ioFailed>>
  BY DEF OnCreate, ClearActivity, startVars, fileVars
<1>2. activity \in Nat /\ activity' \in 0 .. MaxActivities
  BY <1>1, Constants DEF SessionInv, SessionTypeOK
<1>3. SessionTypeOK'
  BY <1>1, <1>2, EmptySeq DEF SessionInv, SessionTypeOK
<1>4. \A r \in Runs : thread[r].handler \in Nat /\ thread[r].handler <= activity
  BY DEF SessionInv, SessionTypeOK, ThreadsOK, Thread
<1>5. \A i \in 1 .. Len(queue) : queue[i].to \in Nat /\ queue[i].to <= activity
  BY MessageTypes DEF SessionInv, MessagesOK
<1>6. ThreadsOK' /\ MessagesOK'
  BY <1>1, <1>2, <1>4, <1>5 DEF SessionInv, ThreadsOK, MessagesOK, Alive
<1>7. ButtonOK' /\ AloneOK' /\ MailOK'
  BY <1>1 DEF SessionInv, ButtonOK, AloneOK, MailOK, Alive, Copied
<1>8. CannotStartTwice' /\ ShownOK'
  BY <1>1, <1>2, <1>4, <1>5 DEF CannotStartTwice, ShownOK, Alive
<1>9. QED
  BY <1>3, <1>6, <1>7, <1>8 DEF SessionInv

(* A run is alone when nobody can spoil it; from here on it stays so       *)
LEMMA StartTestStep ==
    ASSUME SessionInv, StartTest
    PROVE  SessionInv'
<1> DEFINE run == lastRun + 1
           started == [NoThread EXCEPT !.pc = "Install", !.handler = activity]
<1>1. /\ lastRun' = run /\ testThread' = run /\ isRunning' /\ ~btSendMail'
      /\ result' = <<>> /\ Len(result') = 0
      /\ lastRun < MaxRuns
      /\ alone' = (queue = <<>> /\ \A r \in Runs : ~Alive(r))
      /\ thread' = [thread EXCEPT ![run].pc = "Install", ![run].handler = activity]
      /\ UNCHANGED <<activity, queue, workingFile, resultFile>>
  BY DEF StartTest
<1>2. run \in Runs /\ run > lastRun /\ lastRun \in Nat /\ lastRun' \in 0 .. MaxRuns
  BY <1>1, Constants DEF SessionInv, SessionTypeOK
<1>3. thread[run] = NoThread /\ thread \in [Runs -> Thread]
  BY <1>2 DEF SessionInv, SessionTypeOK, ThreadsOK
<1>4. /\ started \in Thread /\ started.pc = "Install" /\ started.handler = activity
      /\ started.section = 0 /\ Counted(started)
  <2>1. activity \in 0 .. MaxActivities
    BY DEF SessionInv, SessionTypeOK
  <2>2. started \in Thread
    BY <2>1, NoThreadOK DEF Thread
  <2>3. QED
    BY <2>2 DEF NoThread, Counted, Early
<1>5. /\ thread' \in [Runs -> Thread]
      /\ thread'[run] = started
      /\ \A r \in Runs : r # run => thread'[r] = thread[r]
  <2> HIDE DEF run
  <2>1. /\ thread'[run] = [thread[run] EXCEPT !.pc = "Install", !.handler = activity]
        /\ \A r \in Runs : r # run => thread'[r] = thread[r]
        /\ thread' = [r \in Runs |-> thread'[r]]
    BY <1>1, <1>2, <1>3
  <2>2. thread'[run] = started
    BY <1>3, <2>1
  <2> HIDE DEF started
  <2>3. \A r \in Runs : thread'[r] \in Thread
    BY <1>3, <1>4, <2>1, <2>2
  <2>4. QED
    BY <2>1, <2>2, <2>3
<1> HIDE DEF started
<1>6. SessionTypeOK'
  BY <1>1, <1>2, <1>5, EmptySeq DEF SessionInv, SessionTypeOK
<1>7. \A i \in 1 .. Len(queue) : queue[i].run \in Nat /\ queue[i].run <= lastRun
  BY MessageTypes DEF SessionInv, MessagesOK
<1>8. ThreadsOK'
  <2>1. \A r \in Runs : r > run => r > lastRun /\ r # run
    BY <1>2, Constants
  <2>2. activity <= activity
    BY DEF SessionInv, SessionTypeOK
  <2>3. QED
    BY <1>1, <1>2, <1>4, <1>5, <2>1, <2>2 DEF SessionInv, ThreadsOK, Alive
<1>9. MessagesOK'
  <2>1. \A i \in 1 .. Len(queue) : queue[i].run <= run /\ queue[i].run # run
    BY <1>2, <1>7
  <2>2. \A i \in 1 .. Len(queue) : queue[i].run \in Runs
    BY MessageTypes DEF SessionInv
  <2>3. QED
    BY <1>1, <1>5, <2>1, <2>2 DEF SessionInv, MessagesOK, Alive
<1>10. ButtonOK'
  BY <1>1, <1>2, <1>4, <1>5, <1>7 DEF ButtonOK, Alive
<1>11. CannotStartTwice'
  BY <1>1 DEF CannotStartTwice
<1>12. alone' => Len(queue') = 0 /\ \A r \in Runs : Alive(r)' => r = lastRun'
  BY <1>1, <1>5 DEF Alive
<1>13. AloneOK' /\ ShownOK'
  <2>1. AloneOK'
    BY <1>12 DEF AloneOK
  <2>2. thread'[lastRun'].section = 0
    BY <1>1, <1>4, <1>5
  <2>3. ShownOK'
    <3> SUFFICES ASSUME alone' PROVE ShownOK'
      BY DEF ShownOK
    <3>1. Len(queue') = 0 /\ Len(result') = 0 /\ 1 .. 0 = {}
      BY <1>1, <1>12
    <3>2. 1 .. Len(queue') = {} /\ 1 .. Len(result') = {}
      BY <3>1
    <3>3. \A r \in Runs : r = lastRun' => thread'[r].section = Len(result') + Len(queue')
      BY <2>2, <3>1
    <3>4. QED
      BY <3>2, <3>3 DEF ShownOK
  <2>4. QED
    BY <2>1, <2>3
<1>14. MailOK'
  BY <1>1, <1>4, <1>5, <1>12 DEF MailOK
<1>15. QED
  BY <1>6, <1>8, <1>9, <1>10, <1>11, <1>13, <1>14 DEF SessionInv

(* Thread.stop: what the thread has posted stays in the queue              *)
LEMMA StopTestStep ==
    ASSUME SessionInv, StopTest
    PROVE  SessionInv'
<1>1. /\ ~isRunning' /\ isRunning
      /\ thread' = [thread EXCEPT ![testThread] = NoThread]
      /\ UNCHANGED <<activity, btSendMail, result, queue, lastRun, alone,
                     workingFile, resultFile, ioFailed>>
  BY DEF StopTest, startVars, fileVars
<1>2. testThread = lastRun /\ lastRun \in Runs /\ thread \in [Runs -> Thread]
  BY <1>1 DEF SessionInv, SessionTypeOK, ButtonOK
<1>3. /\ thread' \in [Runs -> Thread]
      /\ thread'[lastRun] = NoThread
      /\ \A r \in Runs : r # lastRun => thread'[r] = thread[r]
  BY <1>1, <1>2, NoThreadOK
<1>4. SessionTypeOK'
  BY <1>1, <1>3 DEF SessionInv, SessionTypeOK
<1>5. \A r \in Runs : Alive(r)' => Alive(r) /\ r # lastRun
  BY <1>3, NoThreadOK DEF Alive
<1>6. ThreadsOK'
  BY <1>1, <1>3, NoThreadOK DEF SessionInv, SessionTypeOK, ThreadsOK, Alive
<1>7. MessagesOK'
  <2>1. \A i \in 1 .. Len(queue) : queue[i].run \in Runs
    BY MessageTypes DEF SessionInv
  <2>2. QED
    BY <1>1, <1>5, <2>1 DEF SessionInv, MessagesOK
<1>8. ButtonOK' /\ CannotStartTwice'
  BY <1>1, <1>5 DEF ButtonOK, CannotStartTwice
<1>9. AloneOK' /\ ShownOK'
  BY <1>1, <1>2, <1>5 DEF SessionInv, AloneOK, ShownOK
<1>10. MailOK'
  BY <1>1, <1>3, NoThreadOK DEF SessionInv, MailOK, Copied
<1>11. QED
  BY <1>4, <1>6, <1>7, <1>8, <1>9, <1>10 DEF SessionInv

-----------------------------------------------------------------------------
(* The steps of a test thread                                              *)

LEMMA Moved ==
    ASSUME thread \in [Runs -> Thread], NEW r \in Runs, NEW t \in Thread,
           thread' = [thread EXCEPT ![r] = t]
    PROVE  /\ thread' \in [Runs -> Thread]
           /\ thread'[r] = t
           /\ \A q \in Runs : q # r => thread'[q] = thread[q]
OBVIOUS

(* While a run that was started alone lives, its end is not in the queue   *)
LEMMA AliveAlone ==
    ASSUME SessionInv, alone, NEW r \in Runs, Alive(r)
    PROVE  /\ r = lastRun
           /\ \A i \in 1 .. Len(queue) :
                 queue[i].what # "COMPLETE_TEST" /\ queue[i].to = thread[r].handler
<1>1. r = lastRun
  BY DEF SessionInv, AloneOK
<1>2. QED
  BY <1>1 DEF SessionInv, AloneOK, MessagesOK

(* Before the tests a thread changes nothing that anybody sees             *)
LEMMA EarlyStep ==
    ASSUME SessionInv, NEW r \in Runs, NEW t \in Thread,
           thread[r].pc \in Early, t.pc \in Early \cup {"TestAll"},
           thread' = [thread EXCEPT ![r] = t],
           t.handler = thread[r].handler, t.section = thread[r].section,
           UNCHANGED <<activityVars, queue, startVars, resultFile, ioFailed>>,
           (t.pc = "TestAll" /\ t.fos) => workingFile' = [of |-> r, length |-> 0]
    PROVE  SessionInv'
<1>1. UNCHANGED <<activity, isRunning, testThread, btSendMail, result, queue, lastRun,
                  alone, resultFile, ioFailed>>
  BY DEF activityVars, startVars
<1>2. /\ thread' \in [Runs -> Thread] /\ thread'[r] = t
      /\ \A q \in Runs : q # r => thread'[q] = thread[q]
  BY Moved DEF SessionInv, SessionTypeOK
<1>3. /\ Alive(r) /\ t.pc # "None" /\ thread[r].pc # "None"
      /\ t.pc \notin {"Close", "Complete"}
  BY DEF Alive, Early
<1>4. t.section = 0 /\ Counted(t)
  <2>1. thread[r].section = 0
    BY DEF SessionInv, ThreadsOK, Counted
  <2>2. QED
    BY <1>3, <2>1, Constants DEF Counted
<1>5. \A q \in Runs : /\ Alive(q)' <=> Alive(q)
                      /\ thread'[q].handler = thread[q].handler
                      /\ thread'[q].section = thread[q].section
  BY <1>2, <1>3 DEF Alive
<1>6. SessionTypeOK'
  BY <1>1, <1>2 DEF SessionInv, SessionTypeOK
<1>7. ThreadsOK'
  BY <1>1, <1>2, <1>3, <1>4, <1>5 DEF SessionInv, ThreadsOK
<1>8. MessagesOK'
  <2>1. \A i \in 1 .. Len(queue) : queue[i].run \in Runs
    BY MessageTypes DEF SessionInv
  <2>2. QED
    BY <1>1, <1>5, <2>1 DEF SessionInv, MessagesOK
<1>9. ButtonOK'
  BY <1>1, <1>5 DEF SessionInv, ButtonOK
<1>10. AloneOK'
  <2>1. alone => r = lastRun
    BY <1>3, AliveAlone
  <2>2. QED
    BY <1>1, <1>5, <2>1 DEF SessionInv, AloneOK
<1>11. CannotStartTwice' /\ ShownOK'
  BY <1>1, <1>5 DEF SessionInv, CannotStartTwice, ShownOK
<1>12. MailOK'
  <2> SUFFICES ASSUME alone PROVE MailOK'
    BY <1>1 DEF MailOK
  <2>1. r = lastRun
    BY <1>3, AliveAlone
  <2>2. t.pc = "TestAll" /\ t.fos => workingFile' = [of |-> r, length |-> t.section]
    BY <1>4
  <2>3. Copied' <=> Copied
    BY <1>1 DEF Copied
  <2>4. /\ \A i \in 1 .. Len(queue) : queue[i].what = "COMPLETE_TEST" => Copied
        /\ btSendMail => Copied
    BY DEF SessionInv, MailOK
  <2>5. QED
    BY <1>1, <1>2, <1>3, <2>1, <2>2, <2>3, <2>4 DEF MailOK
<1>13. QED
  BY <1>6, <1>7, <1>8, <1>9, <1>10, <1>11, <1>12 DEF SessionInv

(* What a message that is added to the queue does to it                    *)
LEMMA Posted ==
    ASSUME SessionTypeOK, NEW m \in Message, queue' = Append(queue, m)
    PROVE  /\ queue' \in Seq(Message)
           /\ Len(queue') = Len(queue) + 1 /\ Len(queue) \in Nat
           /\ queue'[Len(queue) + 1] = m
           /\ \A i \in 1 .. Len(queue) : queue'[i] = queue[i]
           /\ \A i \in 1 .. Len(queue') : i \in 1 .. Len(queue) \/ i = Len(queue) + 1
<1>1. queue \in Seq(Message)
  BY DEF SessionTypeOK
<1>2. QED
  BY <1>1, AppendProperties, LenProperties

(* A pass of testAll: a section is written and announced                   *)
LEMMA TestStep ==
    ASSUME SessionInv, NEW r \in Runs, NEW t \in Thread,
           thread[r].pc = "TestAll", t.pc \in {"TestAll", "Close"},
           thread' = [thread EXCEPT ![r] = t],
           t.handler = thread[r].handler, t.fos = thread[r].fos,
           t.section = thread[r].section + 1, Counted(t),
           WriteSection(r, "PROGRESS_TEST")
    PROVE  SessionInv'
<1> DEFINE m == [to |-> thread[r].handler, run |-> r, what |-> "PROGRESS_TEST",
                 section |-> thread[r].section]
<1>1. /\ UNCHANGED <<activity, isRunning, testThread, btSendMail, result, lastRun,
                     alone, resultFile>>
      /\ queue' = Append(queue, m)
  BY DEF WriteSection, Post, activityVars, startVars
<1>2. /\ thread' \in [Runs -> Thread] /\ thread'[r] = t
      /\ \A q \in Runs : q # r => thread'[q] = thread[q]
  BY Moved DEF SessionInv, SessionTypeOK
<1>3. Alive(r) /\ t.pc # "None" /\ t.pc # "Complete"
  BY DEF Alive
<1>4. /\ m \in Message
      /\ m.to = thread[r].handler /\ m.run = r /\ m.what = "PROGRESS_TEST"
      /\ m.section = thread[r].section
  <2>1. thread[r] \in Thread
    BY DEF SessionInv, SessionTypeOK
  <2>2. thread[r].section \in 0 .. Summary /\ thread[r].handler \in 0 .. MaxActivities
    <3>1. thread[r].handler \in 0 .. MaxActivities
      BY <2>1 DEF Thread
    <3>2. Counted(thread[r])
      BY DEF SessionInv, ThreadsOK
    <3>3. QED
      BY <3>1, <3>2, Constants DEF Counted
  <2>3. QED
    BY <2>2, Constants DEF Message
<1> HIDE DEF m
<1>5. /\ queue' \in Seq(Message)
      /\ Len(queue') = Len(queue) + 1 /\ Len(queue) \in Nat
      /\ queue'[Len(queue) + 1] = m
      /\ \A i \in 1 .. Len(queue) : queue'[i] = queue[i]
      /\ \A i \in 1 .. Len(queue') : i \in 1 .. Len(queue) \/ i = Len(queue) + 1
  BY <1>1, <1>4, Posted DEF SessionInv
<1>6. \A q \in Runs : /\ Alive(q)' <=> Alive(q)
                      /\ thread'[q].handler = thread[q].handler
  BY <1>2, <1>3 DEF Alive
<1>7. lastRun \in Nat /\ activity \in Nat /\ r <= lastRun /\ thread[r].handler <= activity
  BY <1>3, Constants DEF SessionInv, SessionTypeOK, ThreadsOK
<1>8. SessionTypeOK'
  BY <1>1, <1>2, <1>5 DEF SessionInv, SessionTypeOK
<1>9. ThreadsOK'
  BY <1>1, <1>2, <1>3, <1>6 DEF SessionInv, ThreadsOK
<1>10. MessagesOK'
  <2>1. \A i \in 1 .. Len(queue) : queue[i].run \in Runs
    BY MessageTypes DEF SessionInv
  <2>2. \A i \in 1 .. Len(queue) :
           /\ queue'[i].run <= lastRun /\ queue'[i].to <= activity
           /\ queue'[i].what = "COMPLETE_TEST" => thread'[queue'[i].run].pc = "None"
    BY <1>5, <1>6, <2>1 DEF SessionInv, MessagesOK, Alive
  <2>3. QED
    BY <1>1, <1>4, <1>5, <1>7, <2>2 DEF MessagesOK, Alive
<1>11. ButtonOK'
  <2> SUFFICES ASSUME isRunning PROVE ButtonOK'
    BY <1>1 DEF ButtonOK
  <2>1. /\ testThread = lastRun /\ lastRun \in Runs
        /\ Alive(lastRun) => thread[lastRun].handler = activity
        /\ \A i \in 1 .. Len(queue) : queue[i].run = lastRun => queue[i].to = activity
    BY DEF SessionInv, ButtonOK
  <2>2. \A i \in 1 .. Len(queue') : queue'[i].run = lastRun => queue'[i].to = activity
    BY <1>3, <1>4, <1>5, <2>1
  <2>3. \/ Alive(lastRun)
        \/ \E i \in 1 .. Len(queue') :
              queue'[i].run = lastRun /\ queue'[i].what = "COMPLETE_TEST"
    <3>1. 1 .. Len(queue) \subseteq 1 .. Len(queue')
      BY <1>5
    <3>2. QED
      BY <1>5, <3>1 DEF SessionInv, ButtonOK
  <2>4. QED
    BY <1>1, <1>6, <2>1, <2>2, <2>3 DEF ButtonOK
<1>12. AloneOK'
  <2> SUFFICES ASSUME alone PROVE AloneOK'
    BY <1>1 DEF AloneOK
  <2>1. /\ r = lastRun
        /\ \A i \in 1 .. Len(queue) :
              queue[i].what # "COMPLETE_TEST" /\ queue[i].to = thread[r].handler
    BY <1>3, AliveAlone
  <2>2. \A i \in 1 .. Len(queue) : queue[i].run = lastRun
    BY DEF SessionInv, AloneOK
  <2>3. \A i \in 1 .. Len(queue') :
           /\ queue'[i].run = lastRun /\ queue'[i].what # "COMPLETE_TEST"
           /\ queue'[i].to = thread[lastRun].handler
    BY <1>4, <1>5, <2>1, <2>2
  <2>4. \A q \in Runs : Alive(q)' => q = lastRun
    BY <1>6 DEF SessionInv, AloneOK
  <2>5. QED
    BY <1>1, <1>6, <2>1, <2>3, <2>4 DEF AloneOK
<1>13. CannotStartTwice'
  BY <1>1, <1>6 DEF SessionInv, CannotStartTwice
<1>14. ShownOK'
  <2> SUFFICES ASSUME alone PROVE ShownOK'
    BY <1>1 DEF ShownOK
  <2>1. r = lastRun
    BY <1>3, AliveAlone
  <2>2. Len(result) \in Nat
    BY LenProperties DEF SessionInv, SessionTypeOK
  <2>3. thread[r].handler = activity => thread[r].section = Len(result) + Len(queue)
    BY <1>3, <2>1 DEF SessionInv, ShownOK
  <2>4. \A i \in 1 .. Len(queue') :
           queue'[i].to = activity /\ queue'[i].what = "PROGRESS_TEST" =>
               queue'[i].section = Len(result) + i - 1
    <3>1. \A i \in 1 .. Len(queue) :
             queue'[i].to = activity /\ queue'[i].what = "PROGRESS_TEST" =>
                 queue'[i].section = Len(result) + i - 1
      BY <1>5 DEF SessionInv, ShownOK
    <3>2. m.to = activity => m.section = Len(result) + (Len(queue) + 1) - 1
      BY <1>4, <1>5, <2>2, <2>3
    <3>3. QED
      BY <1>5, <3>1, <3>2
  <2>5. thread'[r].handler = activity => thread'[r].section = Len(result) + Len(queue')
    BY <1>2, <1>5, <2>2, <2>3
  <2>6. QED
    BY <1>1, <2>1, <2>4, <2>5 DEF SessionInv, ShownOK
<1>15. MailOK'
  <2> SUFFICES ASSUME alone PROVE MailOK'
    BY <1>1 DEF MailOK
  <2>1. r = lastRun /\ \A i \in 1 .. Len(queue) : queue[i].what # "COMPLETE_TEST"
    BY <1>3, AliveAlone
  <2>2. ioFailed => ioFailed'
    BY DEF WriteSection
  <2>3. t.fos => ioFailed' \/ workingFile' = [of |-> r, length |-> t.section]
    <3>1. SUFFICES ASSUME thread[r].fos, ~ioFailed'
                   PROVE  workingFile' = [of |-> r, length |-> t.section]
      OBVIOUS
    <3>2. workingFile = [of |-> r, length |-> thread[r].section]
      BY <2>1, <2>2, <3>1 DEF SessionInv, MailOK
    <3>3. workingFile' = [workingFile EXCEPT !.length = @ + 1]
      BY <2>1, <3>1, <3>2 DEF WriteSection
    <3>4. QED
      BY <3>2, <3>3
  <2>4. Copied => Copied'
    BY <1>1, <2>2 DEF Copied
  <2>5. \A i \in 1 .. Len(queue') : queue'[i].what # "COMPLETE_TEST"
    BY <1>4, <1>5, <2>1
  <2>6. btSendMail => Copied'
    BY <2>4 DEF SessionInv, MailOK
  <2>7. QED
    BY <1>1, <1>2, <1>3, <2>1, <2>3, <2>5, <2>6 DEF MailOK
<1>16. QED
  BY <1>8, <1>9, <1>10, <1>11, <1>12, <1>13, <1>14, <1>15 DEF SessionInv

(* The copy of the report; only the file changes                           *)
LEMMA CloseStep ==
    ASSUME SessionInv, NEW r \in Runs, Close(r)
    PROVE  SessionInv'
<1> DEFINE t == [thread[r] EXCEPT !.pc = "Complete", !.isDone = FALSE]
<1>1. /\ UNCHANGED <<activity, isRunning, testThread, btSendMail, result, queue, lastRun,
                     alone, workingFile>>
      /\ thread[r].pc = "Close"
  BY DEF Close, At, activityVars, startVars
<1>2. thread[r] \in Thread /\ thread \in [Runs -> Thread]
  BY DEF SessionInv, SessionTypeOK
<1>3. thread' = [thread EXCEPT ![r] = t]
  BY DEF Close, GoTo
<1>4. /\ t \in Thread /\ t.pc = "Complete" /\ t.handler = thread[r].handler
      /\ t.section = thread[r].section
  BY <1>2 DEF Thread
<1> HIDE DEF t
<1>5. /\ thread' \in [Runs -> Thread] /\ thread'[r] = t
      /\ \A q \in Runs : q # r => thread'[q] = thread[q]
  BY <1>2, <1>3, <1>4, Moved
<1>6. Counted(thread[r]) /\ Counted(t) /\ thread[r].section = Summary + 1
  BY <1>1, <1>4 DEF SessionInv, ThreadsOK, Counted, Early
<1>7. Alive(r)
  BY <1>1 DEF Alive
<1>8. \A q \in Runs : /\ Alive(q)' <=> Alive(q)
                      /\ thread'[q].handler = thread[q].handler
                      /\ thread'[q].section = thread[q].section
  BY <1>1, <1>4, <1>5 DEF Alive
<1>9. SessionTypeOK'
  BY <1>1, <1>5 DEF SessionInv, SessionTypeOK
<1>10. ThreadsOK'
  <2>1. ThreadsOK /\ thread'[r].pc # "None"
    BY <1>4, <1>5 DEF SessionInv
  <2>2. \A q \in Runs : /\ Counted(thread'[q])
                        /\ Alive(q)' \/ thread'[q] = NoThread
    BY <1>5, <1>6, <1>7, <1>8, <2>1 DEF ThreadsOK
  <2>3. QED
    BY <1>1, <1>8, <2>1, <2>2 DEF ThreadsOK
<1>11. MessagesOK'
  <2>1. \A i \in 1 .. Len(queue) : queue[i].run \in Runs
    BY MessageTypes DEF SessionInv
  <2>2. QED
    BY <1>1, <1>8, <2>1 DEF SessionInv, MessagesOK
<1>12. ButtonOK'
  <2> SUFFICES ASSUME isRunning PROVE ButtonOK'
    BY <1>1 DEF ButtonOK
  <2>1. ButtonOK
    BY DEF SessionInv
  <2>2. Alive(lastRun)' <=> Alive(lastRun)
    BY <1>1, <1>8, <2>1 DEF ButtonOK, Alive
  <2>3. QED
    BY <1>1, <1>8, <2>1, <2>2 DEF ButtonOK
<1>13. AloneOK'
  <2>1. alone => r = lastRun
    BY <1>7, AliveAlone
  <2>2. QED
    BY <1>1, <1>8, <2>1 DEF SessionInv, AloneOK
<1>14. CannotStartTwice' /\ ShownOK'
  BY <1>1, <1>8 DEF SessionInv, CannotStartTwice, ShownOK
<1>15. MailOK'
  <2> SUFFICES ASSUME alone PROVE MailOK'
    BY <1>1 DEF MailOK
  <2>1. r = lastRun
    BY <1>7, AliveAlone
  <2>2. ioFailed \/ workingFile = [of |-> r, length |-> Summary + 1]
    BY <1>1, <1>6, <2>1 DEF SessionInv, MailOK, Close
  <2>3. ioFailed' \/ (~ioFailed /\ resultFile' = workingFile)
    BY <2>1, Zenon DEF Close
  <2>4. Copied'
    BY <1>1, <2>1, <2>2, <2>3 DEF Copied, Report
  <2>5. QED
    BY <1>1, <1>4, <1>5, <2>1, <2>4 DEF MailOK
<1>16. QED
  BY <1>9, <1>10, <1>11, <1>12, <1>13, <1>14, <1>15 DEF SessionInv

(* The end of a thread and the message that announces it                   *)
LEMMA CompleteStep ==
    ASSUME SessionInv, NEW r \in Runs, Complete(r)
    PROVE  SessionInv'
<1> DEFINE m == [to |-> thread[r].handler, run |-> r, what |-> "COMPLETE_TEST",
                 section |-> Summary]
<1>1. /\ UNCHANGED <<activity, isRunning, testThread, btSendMail, result, lastRun,
                     alone, workingFile, resultFile, ioFailed>>
      /\ queue' = Append(queue, m) /\ thread[r].pc = "Complete"
      /\ thread' = [thread EXCEPT ![r] = NoThread]
  BY DEF Complete, At, Post, activityVars, startVars, fileVars
<1>2. thread[r] \in Thread /\ thread \in [Runs -> Thread]
  BY DEF SessionInv, SessionTypeOK
<1>3. /\ thread' \in [Runs -> Thread] /\ thread'[r] = NoThread
      /\ \A q \in Runs : q # r => thread'[q] = thread[q]
  BY <1>1, <1>2, NoThreadOK, Moved
<1>4. /\ m \in Message
      /\ m.to = thread[r].handler /\ m.run = r /\ m.what = "COMPLETE_TEST"
  <2>1. thread[r].handler \in 0 .. MaxActivities
    BY <1>2 DEF Thread
  <2>2. QED
    BY <2>1, Constants DEF Message
<1> HIDE DEF m
<1>5. /\ queue' \in Seq(Message)
      /\ Len(queue') = Len(queue) + 1 /\ Len(queue) \in Nat
      /\ queue'[Len(queue) + 1] = m
      /\ \A i \in 1 .. Len(queue) : queue'[i] = queue[i]
      /\ \A i \in 1 .. Len(queue') : i \in 1 .. Len(queue) \/ i = Len(queue) + 1
  BY <1>1, <1>4, Posted DEF SessionInv
<1>6. Alive(r)
  BY <1>1 DEF Alive
<1>7. \A q \in Runs : Alive(q)' => Alive(q) /\ q # r
  BY <1>3, NoThreadOK DEF Alive
<1>8. r <= lastRun /\ thread[r].handler <= activity
  BY <1>6, Constants DEF SessionInv, SessionTypeOK, ThreadsOK
<1>9. SessionTypeOK'
  BY <1>1, <1>3, <1>5 DEF SessionInv, SessionTypeOK
<1>10. ThreadsOK'
  BY <1>1, <1>3, NoThreadOK DEF SessionInv, SessionTypeOK, ThreadsOK, Alive
<1>11. MessagesOK'
  <2>1. \A i \in 1 .. Len(queue) : queue[i].run \in Runs
    BY MessageTypes DEF SessionInv
  <2>2. \A i \in 1 .. Len(queue) :
           /\ queue'[i].run <= lastRun /\ queue'[i].to <= activity
           /\ queue'[i].what = "COMPLETE_TEST" => thread'[queue'[i].run].pc = "None"
    BY <1>3, <1>5, <2>1, NoThreadOK DEF SessionInv, MessagesOK, Alive
  <2>3. thread'[r].pc = "None"
    BY <1>3, NoThreadOK
  <2>4. QED
    BY <1>1, <1>4, <1>5, <1>8, <2>2, <2>3 DEF MessagesOK, Alive
<1>12. ButtonOK'
  <2> SUFFICES ASSUME isRunning PROVE ButtonOK'
    BY <1>1 DEF ButtonOK
  <2>1. /\ testThread = lastRun /\ lastRun \in Runs
        /\ Alive(lastRun) => thread[lastRun].handler = activity
        /\ \A i \in 1 .. Len(queue) : queue[i].run = lastRun => queue[i].to = activity
    BY DEF SessionInv, ButtonOK
  <2>2. \A i \in 1 .. Len(queue') : queue'[i].run = lastRun => queue'[i].to = activity
    BY <1>4, <1>5, <1>6, <2>1
  <2>3. \/ Alive(lastRun) /\ lastRun # r
        \/ \E i \in 1 .. Len(queue') :
              queue'[i].run = lastRun /\ queue'[i].what = "COMPLETE_TEST"
    <3>1. /\ 1 .. Len(queue) \subseteq 1 .. Len(queue')
          /\ Len(queue) + 1 \in 1 .. Len(queue')
      BY <1>5
    <3>2. QED
      BY <1>4, <1>5, <3>1 DEF SessionInv, ButtonOK
  <2>4. Alive(lastRun) /\ lastRun # r => Alive(lastRun)'
    BY <1>1, <1>3, <2>1 DEF Alive
  <2>5. Alive(lastRun)' => thread'[lastRun].handler = activity
    <3>1. Alive(lastRun)' => Alive(lastRun) /\ thread'[lastRun] = thread[lastRun]
      BY <1>1, <1>3, <2>1, NoThreadOK DEF Alive
    <3>2. QED
      BY <2>1, <3>1
  <2>6. QED
    BY <1>1, <2>1, <2>2, <2>3, <2>4, <2>5 DEF ButtonOK
<1>13. alone => /\ r = lastRun /\ \A q \in Runs : ~Alive(q)'
                /\ \A i \in 1 .. Len(queue) :
                      queue[i].what # "COMPLETE_TEST" /\ queue[i].to = thread[r].handler
  <2> SUFFICES ASSUME alone
               PROVE  /\ r = lastRun /\ \A q \in Runs : ~Alive(q)'
                      /\ \A i \in 1 .. Len(queue) :
                           queue[i].what # "COMPLETE_TEST" /\ queue[i].to = thread[r].handler
    OBVIOUS
  <2>1. /\ r = lastRun
        /\ \A i \in 1 .. Len(queue) :
              queue[i].what # "COMPLETE_TEST" /\ queue[i].to = thread[r].handler
    BY <1>6, AliveAlone
  <2>2. \A q \in Runs : ~Alive(q)'
    BY <1>7, <2>1 DEF SessionInv, AloneOK
  <2>3. QED
    BY <2>1, <2>2
<1>14. AloneOK'
  <2> SUFFICES ASSUME alone PROVE AloneOK'
    BY <1>1 DEF AloneOK
  <2>1. \A i \in 1 .. Len(queue) : queue[i].run = lastRun
    BY DEF SessionInv, AloneOK
  <2>2. \A i \in 1 .. Len(queue') :
           /\ queue'[i].run = lastRun /\ queue'[i].to = thread[r].handler
           /\ queue'[i].what = "COMPLETE_TEST" => i = Len(queue')
    BY <1>4, <1>5, <1>13, <2>1
  <2>3. (\A q \in Runs : ~Alive(q)') /\ lastRun \in Runs
    BY <1>13
  <2>4. ~Alive(lastRun)'
    BY <1>1, <2>3 DEF Alive
  <2>5. QED
    BY <1>1, <2>2, <2>3, <2>4 DEF AloneOK
<1>15. CannotStartTwice'
  BY <1>1, <1>13 DEF CannotStartTwice
<1>16. ShownOK'
  <2> SUFFICES ASSUME alone PROVE ShownOK'
    BY <1>1 DEF ShownOK
  <2>1. \A i \in 1 .. Len(queue') :
           queue'[i].to = activity /\ queue'[i].what = "PROGRESS_TEST" =>
               queue'[i].section = Len(result) + i - 1
    BY <1>4, <1>5 DEF SessionInv, ShownOK
  <2>2. QED
    BY <1>1, <1>13, <2>1 DEF SessionInv, ShownOK
<1>17. MailOK'
  <2> SUFFICES ASSUME alone PROVE MailOK'
    BY <1>1 DEF MailOK
  <2>1. Copied
    BY <1>1, <1>13 DEF SessionInv, MailOK
  <2>2. Copied'
    BY <1>1, <2>1 DEF Copied
  <2>3. \A q \in Runs : q = lastRun => thread'[q].pc = "None"
    BY <1>3, <1>13, NoThreadOK
  <2>4. QED
    BY <1>1, <2>2, <2>3 DEF MailOK
<1>18. QED
  BY <1>9, <1>10, <1>11, <1>12, <1>14, <1>15, <1>16, <1>17 DEF SessionInv

-----------------------------------------------------------------------------
(* The main thread takes a message                                         *)

LEMMA Taken ==
    ASSUME SessionTypeOK, queue # <<>>, queue' = Tail(queue)
    PROVE  /\ queue' \in Seq(Message) /\ Head(queue) = queue[1]
           /\ Len(queue) \in Nat /\ Len(queue) > 0 /\ 1 \in 1 .. Len(queue)
           /\ Len(queue') = Len(queue) - 1
           /\ \A i \in 1 .. Len(queue') :
                 i + 1 \in 1 .. Len(queue) /\ queue'[i] = queue[i + 1]
           /\ \A i \in 1 .. Len(queue) :
                 i # 1 => i - 1 \in 1 .. Len(queue') /\ queue'[i - 1] = queue[i]
<1>1. queue \in Seq(Message)
  BY DEF SessionTypeOK
<1>2. Len(queue) \in Nat /\ Len(queue) > 0
  BY <1>1, EmptySeq, LenProperties
<1>3. /\ Head(queue) = queue[1] /\ Tail(queue) \in Seq(Message)
      /\ Len(Tail(queue)) = Len(queue) - 1
      /\ \A i \in 1 .. Len(Tail(queue)) : Tail(queue)[i] = queue[i + 1]
  BY <1>1, HeadTailProperties
<1>4. \A i \in 1 .. Len(queue) :
         i # 1 => i - 1 \in 1 .. Len(queue') /\ (i - 1) + 1 = i
  BY <1>2, <1>3
<1>5. QED
  BY <1>2, <1>3, <1>4

(* What stays in the queue is still of a run and for an activity there was *)
LEMMA StillMessages ==
    ASSUME SessionInv, queue # <<>>, queue' = Tail(queue), UNCHANGED <<thread, lastRun, activity>>
    PROVE  ThreadsOK' /\ MessagesOK'
<1>1. ThreadsOK'
  BY DEF SessionInv, ThreadsOK, Alive
<1>2. \A i \in 1 .. Len(queue') : i + 1 \in 1 .. Len(queue) /\ queue'[i] = queue[i + 1]
  BY Taken DEF SessionInv
<1>3. MessagesOK'
  BY <1>2 DEF SessionInv, MessagesOK, Alive
<1>4. QED
  BY <1>1, <1>3

(* What AloneOK says of a queue it says of the rest of it                  *)
LEMMA StillAlone ==
    ASSUME SessionInv, queue # <<>>, queue' = Tail(queue), UNCHANGED <<thread, lastRun, alone>>
    PROVE  AloneOK'
<1> SUFFICES ASSUME alone PROVE AloneOK'
  BY DEF AloneOK
<1>1. /\ Len(queue) \in Nat /\ Len(queue') = Len(queue) - 1
      /\ \A i \in 1 .. Len(queue') : i + 1 \in 1 .. Len(queue) /\ queue'[i] = queue[i + 1]
  BY Taken DEF SessionInv
<1>2. \A i \in 1 .. Len(queue) :
         /\ queue[i].run = lastRun
         /\ queue[i].what = "COMPLETE_TEST" => i = Len(queue)
         /\ \A j \in 1 .. Len(queue) : queue[j].to = queue[i].to
         /\ Alive(lastRun) => queue[i].to = thread[lastRun].handler
  BY DEF SessionInv, AloneOK
<1>3. ASSUME NEW i \in 1 .. Len(queue')
      PROVE  /\ queue'[i].run = lastRun
             /\ queue'[i].what = "COMPLETE_TEST" => i = Len(queue')
             /\ \A j \in 1 .. Len(queue') : queue'[j].to = queue'[i].to
             /\ Alive(lastRun) => queue'[i].to = thread[lastRun].handler
  <2>1. i + 1 \in 1 .. Len(queue) /\ queue'[i] = queue[i + 1]
    BY <1>1
  <2>2. /\ queue[i + 1].run = lastRun
        /\ queue[i + 1].what = "COMPLETE_TEST" => i + 1 = Len(queue)
        /\ \A j \in 1 .. Len(queue) : queue[j].to = queue[i + 1].to
        /\ Alive(lastRun) => queue[i + 1].to = thread[lastRun].handler
    BY <1>2, <2>1
  <2>3. \A j \in 1 .. Len(queue') : queue'[j].to = queue[i + 1].to
    BY <1>1, <2>2
  <2>4. QED
    BY <1>1, <2>1, <2>2, <2>3
<1>4. QED
  BY <1>3 DEF SessionInv, AloneOK, Alive

LEMMA HandleProgressStep ==
    ASSUME SessionInv, HandleProgress
    PROVE  SessionInv'
<1>1. /\ UNCHANGED <<activity, isRunning, testThread, btSendMail, thread, lastRun, alone,
                     workingFile, resultFile, ioFailed>>
      /\ queue # <<>> /\ queue' = Tail(queue) /\ Head(queue).what = "PROGRESS_TEST"
      /\ result' = IF Head(queue).to = activity
                   THEN Append(result, <<Head(queue).run, Head(queue).section>>)
                   ELSE result
  BY DEF HandleProgress, startVars, fileVars
<1>2. /\ queue' \in Seq(Message) /\ Head(queue) = queue[1]
      /\ Len(queue) \in Nat /\ Len(queue) > 0 /\ 1 \in 1 .. Len(queue)
      /\ Len(queue') = Len(queue) - 1
      /\ \A i \in 1 .. Len(queue') :
            i + 1 \in 1 .. Len(queue) /\ queue'[i] = queue[i + 1]
      /\ \A i \in 1 .. Len(queue) :
            i # 1 => i - 1 \in 1 .. Len(queue') /\ queue'[i - 1] = queue[i]
  BY <1>1, Taken DEF SessionInv
<1>3. /\ queue[1].run \in Runs /\ queue[1].section \in Sections
      /\ queue[1].what = "PROGRESS_TEST"
      /\ result \in Seq(Runs \X Sections)
  BY <1>1, <1>2, MessageTypes DEF SessionInv, SessionTypeOK, Message
<1>4. /\ result' \in Seq(Runs \X Sections) /\ Len(result) \in Nat
      /\ queue[1].to # activity => result' = result
      /\ queue[1].to = activity =>
            /\ Len(result') = Len(result) + 1
            /\ result'[Len(result) + 1] = <<queue[1].run, queue[1].section>>
            /\ \A i \in 1 .. Len(result) : result'[i] = result[i]
  BY <1>1, <1>2, <1>3, AppendProperties, LenProperties
<1>5. SessionTypeOK'
  BY <1>1, <1>2, <1>4 DEF SessionInv, SessionTypeOK
<1>6. ThreadsOK' /\ MessagesOK'
  BY <1>1, StillMessages
<1>7. AloneOK'
  BY <1>1, StillAlone
<1>8. ButtonOK'
  <2> SUFFICES ASSUME isRunning PROVE ButtonOK'
    BY <1>1 DEF ButtonOK
  <2>1. \A i \in 1 .. Len(queue') : queue'[i].run = lastRun => queue'[i].to = activity
    BY <1>2 DEF SessionInv, ButtonOK
  <2>2. \A i \in 1 .. Len(queue) :
           queue[i].run = lastRun /\ queue[i].what = "COMPLETE_TEST" =>
               \E j \in 1 .. Len(queue') :
                   queue'[j].run = lastRun /\ queue'[j].what = "COMPLETE_TEST"
    BY <1>2, <1>3
  <2>3. \/ Alive(lastRun)
        \/ \E j \in 1 .. Len(queue') :
              queue'[j].run = lastRun /\ queue'[j].what = "COMPLETE_TEST"
    BY <2>2 DEF SessionInv, ButtonOK
  <2>4. QED
    BY <1>1, <2>1, <2>3 DEF SessionInv, ButtonOK, Alive
<1>9. CannotStartTwice'
  BY <1>1 DEF SessionInv, CannotStartTwice, Alive
<1>10. ShownOK'
  <2> SUFFICES ASSUME alone PROVE ShownOK'
    BY <1>1 DEF ShownOK
  <2>1. /\ \A i \in 1 .. Len(result) : result[i] = <<lastRun, i - 1>>
        /\ \A i \in 1 .. Len(queue) :
              queue[i].to = activity /\ queue[i].what = "PROGRESS_TEST" =>
                  queue[i].section = Len(result) + i - 1
        /\ \A r \in Runs :
              r = lastRun /\ Alive(r) /\ thread[r].handler = activity =>
                  thread[r].section = Len(result) + Len(queue)
    BY DEF SessionInv, ShownOK
  <2>2. \A i \in 1 .. Len(queue) : queue[i].run = lastRun /\ queue[i].to = queue[1].to
    BY <1>2 DEF SessionInv, AloneOK
  <2>3. \A r \in Runs : r = lastRun /\ Alive(r) => queue[1].to = thread[r].handler
    BY <1>2 DEF SessionInv, AloneOK
  <2>4. CASE queue[1].to # activity
    <3>1. \A i \in 1 .. Len(queue') : queue'[i].to # activity
      BY <1>2, <2>2, <2>4
    <3>2. QED
      BY <1>1, <1>4, <2>1, <2>3, <2>4, <3>1 DEF ShownOK, Alive
  <2>5. CASE queue[1].to = activity
    <3>1. /\ Len(result') = Len(result) + 1
          /\ \A i \in 1 .. Len(result) : result'[i] = <<lastRun, i - 1>>
      BY <1>4, <2>1, <2>5
    <3>2. queue[1].run = lastRun /\ queue[1].section = Len(result)
      BY <1>2, <1>3, <1>4, <2>1, <2>2, <2>5
    <3>3. \A i \in 1 .. Len(result') : i \in 1 .. Len(result) \/ i = Len(result) + 1
      BY <1>4, <3>1
    <3>4. result'[Len(result) + 1] = <<lastRun, (Len(result) + 1) - 1>>
      BY <1>4, <2>5, <3>2
    <3>5. \A i \in 1 .. Len(result') : result'[i] = <<lastRun, i - 1>>
      BY <3>1, <3>3, <3>4
    <3>6. \A i \in 1 .. Len(queue') :
             queue'[i].to = activity /\ queue'[i].what = "PROGRESS_TEST" =>
                 queue'[i].section = Len(result') + i - 1
      BY <1>2, <1>4, <2>1, <3>1
    <3>7. \A r \in Runs :
             r = lastRun /\ Alive(r) /\ thread[r].handler = activity =>
                 thread[r].section = Len(result') + Len(queue')
      BY <1>2, <1>4, <2>1, <3>1
    <3>8. QED
      BY <1>1, <3>5, <3>6, <3>7 DEF ShownOK, Alive
  <2>6. QED
    BY <2>4, <2>5
<1>11. MailOK'
  <2> SUFFICES ASSUME alone PROVE MailOK'
    BY <1>1 DEF MailOK
  <2>1. Copied' <=> Copied
    BY <1>1 DEF Copied
  <2>2. \A i \in 1 .. Len(queue') : queue'[i].what = "COMPLETE_TEST" => Copied
    BY <1>2 DEF SessionInv, MailOK
  <2>3. QED
    BY <1>1, <2>1, <2>2 DEF SessionInv, MailOK
<1>12. QED
  BY <1>5, <1>6, <1>7, <1>8, <1>9, <1>10, <1>11 DEF SessionInv

LEMMA HandleCompleteStep ==
    ASSUME SessionInv, HandleComplete
    PROVE  SessionInv'
<1>1. /\ UNCHANGED <<activity, result, thread, lastRun, alone, workingFile, resultFile,
                     ioFailed>>
      /\ queue # <<>> /\ queue' = Tail(queue) /\ Head(queue).what = "COMPLETE_TEST"
      /\ \/ Head(queue).to = activity /\ ~isRunning' /\ btSendMail'
         \/ Head(queue).to # activity /\ UNCHANGED <<isRunning, testThread, btSendMail>>
  BY DEF HandleComplete, startVars, fileVars
<1>2. /\ queue' \in Seq(Message) /\ Head(queue) = queue[1]
      /\ Len(queue) \in Nat /\ Len(queue) > 0 /\ 1 \in 1 .. Len(queue)
      /\ Len(queue') = Len(queue) - 1
      /\ \A i \in 1 .. Len(queue') :
            i + 1 \in 1 .. Len(queue) /\ queue'[i] = queue[i + 1]
      /\ \A i \in 1 .. Len(queue) :
            i # 1 => i - 1 \in 1 .. Len(queue') /\ queue'[i - 1] = queue[i]
  BY <1>1, Taken DEF SessionInv
<1>3. queue[1].run \in Runs /\ ~Alive(queue[1].run)
  BY <1>1, <1>2, MessageTypes DEF SessionInv, MessagesOK
<1>4. SessionTypeOK'
  BY <1>1, <1>2 DEF SessionInv, SessionTypeOK
<1>5. ThreadsOK' /\ MessagesOK'
  BY <1>1, StillMessages
<1>6. AloneOK'
  BY <1>1, StillAlone
<1>7. ButtonOK'
  <2> SUFFICES ASSUME isRunning' PROVE ButtonOK'
    BY DEF ButtonOK
  <2>1. queue[1].to # activity /\ isRunning /\ UNCHANGED <<isRunning, testThread>>
    BY <1>1, <1>2
  <2>2. \A i \in 1 .. Len(queue) : queue[i].run = lastRun => queue[i].to = activity
    BY <2>1 DEF SessionInv, ButtonOK
  <2>3. \A i \in 1 .. Len(queue') : queue'[i].run = lastRun => queue'[i].to = activity
    BY <1>2, <2>2
  <2>4. \A i \in 1 .. Len(queue) :
           queue[i].run = lastRun /\ queue[i].what = "COMPLETE_TEST" =>
               \E j \in 1 .. Len(queue') :
                   queue'[j].run = lastRun /\ queue'[j].what = "COMPLETE_TEST"
    BY <1>2, <2>1, <2>2
  <2>5. \/ Alive(lastRun)
        \/ \E j \in 1 .. Len(queue') :
              queue'[j].run = lastRun /\ queue'[j].what = "COMPLETE_TEST"
    BY <2>1, <2>4 DEF SessionInv, ButtonOK
  <2>6. QED
    BY <1>1, <2>1, <2>3, <2>5 DEF SessionInv, ButtonOK, Alive
<1>8. alone => queue[1].run = lastRun /\ Len(queue') = 0 /\ ~Alive(lastRun)
  <2> SUFFICES ASSUME alone
               PROVE  queue[1].run = lastRun /\ Len(queue') = 0 /\ ~Alive(lastRun)
    OBVIOUS
  <2>1. queue[1].run = lastRun /\ 1 = Len(queue)
    BY <1>1, <1>2 DEF SessionInv, AloneOK
  <2>2. ~Alive(lastRun)
    BY <1>3, <2>1
  <2>3. Len(queue') = 0
    <3>1. Len(queue') = Len(queue) - 1
      BY <1>2
    <3>2. Len(queue) = 1
      BY <2>1
    <3>3. QED
      BY <3>1, <3>2
  <2>4. QED
    BY <2>1, <2>2, <2>3
<1>9. CannotStartTwice'
  BY <1>1, <1>8 DEF CannotStartTwice, Alive
<1>10. ShownOK'
  <2>1. alone => 1 .. Len(queue') = {}
    BY <1>8
  <2>2. QED
    BY <1>1, <1>8, <2>1 DEF SessionInv, ShownOK, Alive
<1>11. MailOK'
  <2> SUFFICES ASSUME alone PROVE MailOK'
    BY <1>1 DEF MailOK
  <2>1. Copied' /\ Copied
    BY <1>1, <1>2 DEF SessionInv, MailOK, Copied
  <2>2. QED
    BY <1>1, <2>1 DEF SessionInv, MailOK
<1>12. QED
  BY <1>4, <1>5, <1>6, <1>7, <1>9, <1>10, <1>11 DEF SessionInv

-----------------------------------------------------------------------------
(* Every step                                                              *)

LEMMA EarlyGoTo ==
    ASSUME SessionInv, NEW r \in Runs, NEW there \in Early,
           thread[r].pc \in Early, GoTo(r, there),
           UNCHANGED <<activityVars, queue, startVars, fileVars>>
    PROVE  SessionInv'
<1> DEFINE t == [thread[r] EXCEPT !.pc = there, !.isDone = FALSE]
<1>1. thread[r] \in Thread
  BY DEF SessionInv, SessionTypeOK
<1>2. thread' = [thread EXCEPT ![r] = t]
  BY DEF GoTo
<1>3. /\ t \in Thread /\ t.pc = there /\ t.handler = thread[r].handler
      /\ t.section = thread[r].section
  BY <1>1 DEF Thread, Early
<1> HIDE DEF t
<1>4. t.pc # "TestAll"
  BY <1>3 DEF Early
<1>5. UNCHANGED <<activityVars, queue, startVars, resultFile, ioFailed>>
  BY DEF fileVars
<1>6. QED
  BY <1>2, <1>3, <1>4, <1>5, EarlyStep

LEMMA OnReceiveStep ==
    ASSUME SessionInv, NEW r \in Runs, OnReceive(r)
    PROVE  SessionInv'
<1> DEFINE t == [thread[r] EXCEPT !.isDone = TRUE]
<1>1. thread[r] \in Thread /\ thread[r].pc = "WifiWait"
  BY DEF SessionInv, SessionTypeOK, OnReceive, At
<1>2. thread' = [thread EXCEPT ![r] = t]
  BY DEF OnReceive
<1>3. /\ t \in Thread /\ t.pc = "WifiWait" /\ t.handler = thread[r].handler
      /\ t.section = thread[r].section
  BY <1>1 DEF Thread
<1> HIDE DEF t
<1>4. UNCHANGED <<activityVars, queue, startVars, resultFile, ioFailed>>
  BY DEF OnReceive, fileVars
<1>5. QED
  BY <1>1, <1>2, <1>3, <1>4, EarlyStep DEF Early

LEMMA OpenFileStep ==
    ASSUME SessionInv, NEW r \in Runs, OpenFile(r)
    PROVE  SessionInv'
<1>1. PICK opened \in BOOLEAN :
         /\ Opened(r, opened)
         /\ thread' = [thread EXCEPT ![r].pc = "TestAll", ![r].fos = opened]
  BY DEF OpenFile
<1> DEFINE t == [thread[r] EXCEPT !.pc = "TestAll", !.fos = opened]
<1>2. thread[r] \in Thread /\ thread[r].pc = "OpenFile"
  BY DEF SessionInv, SessionTypeOK, OpenFile, At
<1>3. thread' = [thread EXCEPT ![r] = t]
  BY <1>1
<1>4. /\ t \in Thread /\ t.pc = "TestAll" /\ t.handler = thread[r].handler
      /\ t.section = thread[r].section
  BY <1>2 DEF Thread
<1>5. t.fos => workingFile' = [of |-> r, length |-> 0]
  BY <1>1, <1>2 DEF Thread, Opened
<1> HIDE DEF t
<1>6. UNCHANGED <<activityVars, queue, startVars, resultFile, ioFailed>>
  BY DEF OpenFile
<1>7. QED
  BY <1>2, <1>3, <1>4, <1>5, <1>6, EarlyStep DEF Early

LEMMA TestJstunStep ==
    ASSUME SessionInv, NEW r \in Runs, TestJstun(r)
    PROVE  SessionInv'
<1> DEFINE t == [thread[r] EXCEPT !.section = 1]
<1>1. thread[r] \in Thread /\ thread[r].pc = "TestAll" /\ thread[r].section = 0
  BY DEF SessionInv, SessionTypeOK, TestJstun, At
<1>2. thread' = [thread EXCEPT ![r] = t]
  BY DEF TestJstun
<1>3. 1 \in 0 .. Summary /\ 1 \in 0 .. Summary + 1
  BY Constants
<1>4. /\ t \in Thread /\ t.pc = "TestAll" /\ t.handler = thread[r].handler
      /\ t.fos = thread[r].fos /\ t.section = thread[r].section + 1 /\ t.section = 1
  BY <1>1, <1>3 DEF Thread
<1> HIDE DEF t
<1>5. Counted(t)
  BY <1>3, <1>4 DEF Counted, Early
<1>6. WriteSection(r, "PROGRESS_TEST")
  BY DEF TestJstun
<1>7. QED
  BY <1>1, <1>2, <1>4, <1>5, <1>6, TestStep

LEMMA ExecuteStep ==
    ASSUME SessionInv, NEW r \in Runs, Execute(r)
    PROVE  SessionInv'
<1> DEFINE s == thread[r].section
           t == [thread[r] EXCEPT !.section = s + 1]
<1>1. thread[r] \in Thread /\ thread[r].pc = "TestAll" /\ s \in 1 .. Clients
  BY DEF SessionInv, SessionTypeOK, Execute, At
<1>2. thread' = [thread EXCEPT ![r] = t]
  BY DEF Execute
<1> HIDE DEF s
<1>3. s + 1 \in 0 .. Summary /\ s + 1 \in 0 .. Summary + 1
  BY <1>1, Constants
<1>4. /\ t \in Thread /\ t.pc = "TestAll" /\ t.handler = thread[r].handler
      /\ t.fos = thread[r].fos /\ t.section = s + 1
  BY <1>1, <1>3 DEF Thread
<1> HIDE DEF t
<1>5. Counted(t)
  BY <1>3, <1>4 DEF Counted, Early
<1>6. WriteSection(r, "PROGRESS_TEST")
  BY DEF Execute
<1>7. t.section = thread[r].section + 1
  BY <1>4 DEF s
<1>8. QED
  BY <1>1, <1>2, <1>4, <1>5, <1>6, <1>7, TestStep

LEMMA SummariseStep ==
    ASSUME SessionInv, NEW r \in Runs, Summarise(r)
    PROVE  SessionInv'
<1> DEFINE t == [thread[r] EXCEPT !.section = @ + 1, !.pc = "Close"]
<1>1. thread[r] \in Thread /\ thread[r].pc = "TestAll" /\ thread[r].section = Summary
  BY DEF SessionInv, SessionTypeOK, Summarise, At
<1>2. thread' = [thread EXCEPT ![r] = t]
  BY DEF Summarise
<1>3. /\ t \in Thread /\ t.pc = "Close" /\ t.handler = thread[r].handler
      /\ t.fos = thread[r].fos /\ t.section = Summary + 1
      /\ t.section = thread[r].section + 1
  <2>1. thread[r].section + 1 = Summary + 1 /\ Summary + 1 \in 0 .. Summary + 1
    BY <1>1, Constants
  <2>2. t \in Thread
    BY <1>1, <2>1 DEF Thread
  <2>3. QED
    BY <1>1, <2>1, <2>2 DEF Thread
<1> HIDE DEF t
<1>4. Counted(t)
  BY <1>3 DEF Counted, Early
<1>5. WriteSection(r, "PROGRESS_TEST")
  BY DEF Summarise
<1>6. QED
  BY <1>1, <1>2, <1>3, <1>4, <1>5, TestStep

LEMMA NextSessionInv ==
    ASSUME SessionInv, [Next]_vars
    PROVE  SessionInv'
<1>1. CASE OnCreate
  BY <1>1, OnCreateStep
<1>2. CASE StartTest
  BY <1>2, StartTestStep
<1>3. CASE StopTest
  BY <1>3, StopTestStep
<1>4. CASE StopTestThrows
  BY <1>4, DieStep DEF StopTestThrows, Die
<1>5. CASE HandleProgress
  BY <1>5, HandleProgressStep
<1>6. CASE HandleComplete
  BY <1>6, HandleCompleteStep
<1>7. ASSUME NEW r \in Runs, Install(r) PROVE SessionInv'
  <2>1. /\ thread[r].pc \in Early /\ GoTo(r, "DisableWifi") /\ "DisableWifi" \in Early
        /\ UNCHANGED <<activityVars, queue, startVars, fileVars>>
    BY <1>7 DEF Install, At, Early
  <2>2. QED
    BY <2>1, EarlyGoTo
<1>8. ASSUME NEW r \in Runs, DisableWifi(r) PROVE SessionInv'
  <2>1. /\ thread[r].pc \in Early /\ {"OpenFile", "WifiWait"} \subseteq Early
        /\ GoTo(r, "OpenFile") \/ GoTo(r, "WifiWait")
        /\ UNCHANGED <<activityVars, queue, startVars, fileVars>>
    BY <1>8 DEF DisableWifi, At, Early
  <2>2. QED
    BY <2>1, EarlyGoTo
<1>9. ASSUME NEW r \in Runs, WifiDone(r) \/ WifiTimeout(r) PROVE SessionInv'
  <2>1. /\ thread[r].pc \in Early /\ GoTo(r, "OpenFile") /\ "OpenFile" \in Early
        /\ UNCHANGED <<activityVars, queue, startVars, fileVars>>
    BY <1>9 DEF WifiDone, WifiTimeout, At, Early
  <2>2. QED
    BY <2>1, EarlyGoTo
<1>10. ASSUME NEW r \in Runs, OpenFile(r) PROVE SessionInv'
  BY <1>10, OpenFileStep
<1>11. ASSUME NEW r \in Runs, NoLocationProvider(r) \/ CloseNull(r) PROVE SessionInv'
  BY <1>11, DieStep DEF NoLocationProvider, CloseNull, Die
<1>12. ASSUME NEW r \in Runs, TestJstun(r) PROVE SessionInv'
  BY <1>12, TestJstunStep
<1>13. ASSUME NEW r \in Runs, Execute(r) PROVE SessionInv'
  BY <1>13, ExecuteStep
<1>14. ASSUME NEW r \in Runs, Summarise(r) PROVE SessionInv'
  BY <1>14, SummariseStep
<1>15. ASSUME NEW r \in Runs, Close(r) PROVE SessionInv'
  BY <1>15, CloseStep
<1>16. ASSUME NEW r \in Runs, Complete(r) PROVE SessionInv'
  BY <1>16, CompleteStep
<1>17. CASE WifiStops \/ UNCHANGED vars
  <2>1. UNCHANGED <<activityVars, queue, thread, startVars, fileVars>>
    BY <1>17 DEF WifiStops, vars
  <2>2. QED
    BY <2>1, UnseenStep
<1>18. ASSUME NEW r \in Runs, OnReceive(r) PROVE SessionInv'
  BY <1>18, OnReceiveStep
<1>19. QED
  BY <1>1, <1>2, <1>3, <1>4, <1>5, <1>6, <1>7, <1>8, <1>9, <1>10, <1>11, <1>12, <1>13,
     <1>14, <1>15, <1>16, <1>17, <1>18 DEF Next

LEMMA SessionInvariant == Spec => []SessionInv
<1>1. Init => SessionInv
  BY InitSessionInv
<1>2. SessionInv /\ [Next]_vars => SessionInv'
  BY NextSessionInv
<1>3. QED
  BY <1>1, <1>2, PTL DEF Spec

-----------------------------------------------------------------------------
(* However many runs, activities and late messages there are, the button   *)
(* that onStartStop and handleMessage keep says Stop only while the last   *)
(* run lives or the message of its end is still to be handled.             *)
THEOREM ButtonIsRight == Spec => []StopMeansRunning
<1>1. SessionInv => StopMeansRunning
  <2> SUFFICES ASSUME SessionInv, isRunning PROVE StopMeansRunning
    BY DEF StopMeansRunning
  <2>1. testThread = lastRun /\ lastRun \in Runs
    BY DEF SessionInv, ButtonOK
  <2>2. testThread # 0
    BY <2>1, Constants
  <2>3. QED
    BY <2>1, <2>2 DEF SessionInv, ButtonOK, StopMeansRunning, Queued
<1>2. QED
  BY <1>1, SessionInvariant, PTL

(* A run that startTest has started with nothing left of earlier ones is   *)
(* never joined by a second one from the same activity.                    *)
THEOREM NoSecondStart == Spec => []CannotStartTwice
<1>1. SessionInv => CannotStartTwice
  BY DEF SessionInv
<1>2. QED
  BY <1>1, SessionInvariant, PTL

(* What handleMessage has shown of such a run are its first tests, each    *)
(* once, in the order in which testAll has made them.                      *)
THEOREM ScreenIsInOrder == Spec => []ShownInOrder
<1>1. SessionInv => ShownInOrder
  BY DEF SessionInv, ShownOK, ShownInOrder
<1>2. QED
  BY <1>1, SessionInvariant, PTL

(* The mail button, which the end of such a run enables, sends the report  *)
(* that run has written and unix2Dos has copied, or a write has failed.    *)
THEOREM MailIsOwnReport == Spec => []MailsOwnReport
<1>1. SessionInv => MailsOwnReport
  BY DEF SessionInv, MailOK, Copied, MailsOwnReport
<1>2. QED
  BY <1>1, SessionInvariant, PTL
=============================================================================
