--------------------------- MODULE InviteWizards ---------------------------
(***************************************************************************)
(* The four dialogs by which a person greets or claims a user or a device. *)
(*                                                                         *)
(* Two threads take part.  In the trio thread a worker (Greeter.run or     *)
(* Claimer.run) goes through the steps of the invitation; it talks with    *)
(* the jobs of the pages over channels without buffer.  In the Qt thread   *)
(* the pages submit one job per step, and what the jobs end with comes     *)
(* back as signals, which Qt delivers later and in order.  A dialog that   *)
(* fails starts again with a new worker and new channels; signals of the   *)
(* worker before may still be under way.                                   *)
(***************************************************************************)
EXTENDS Naturals, Sequences

CONSTANTS
  Wizards,       \* the dialogs considered
  MaxAttempts    \* bound: how often a dialog starts

WizardKinds == {"greet_user", "greet_device", "claim_user", "claim_device"}

ASSUME WizardAssumption == Wizards \subseteq WizardKinds /\ MaxAttempts \in Nat \ {0}

VARIABLES
  wiz,       \* the dialog: its kind, the attempt, whether it is shown, its result
  page,      \* the page that is shown, with the attempt it was made for
  info,      \* the job that retrieves the invitation (claimers only)
  worker,    \* the worker of the current attempt
  qtSignals,   \* the signals that Qt has not delivered
  broken     \* an assertion of the worker failed

wizardVars == <<wiz, page, info, worker, qtSignals, broken>>

-----------------------------------------------------------------------------
(* What the workers expect, in order.                                      *)

GreetUserRun == <<"WaitPeer", "GetGreeterSas", "WaitPeerTrust", "GetClaimerSas",
                  "SignifyTrust", "GetClaimRequests", "CreateNewUser">>
GreetDeviceRun == <<"WaitPeer", "GetGreeterSas", "WaitPeerTrust", "GetClaimerSas",
                    "SignifyTrust">>
ClaimUserRun == <<"RetrieveInfo", "WaitPeer", "GetGreeterSas", "SignifyTrust",
                  "GetClaimerSas", "WaitPeerTrust", "ClaimUser">>
ClaimDeviceRun == <<"RetrieveInfo", "WaitPeer", "GetGreeterSas", "SignifyTrust",
                    "GetClaimerSas", "WaitPeerTrust", "ClaimDevice">>

(* The jobs of the pages: submitted when the page is shown or the job       *)
(* before it succeeded, or when the person clicks.  A code may be clicked   *)
(* as a wrong one, and the last page of claim_user saves without a job.     *)
Auto(s) == [step |-> s, by |-> "page"]
Clicked(s) == [step |-> s, by |-> "click"]
Code(s) == [step |-> s, by |-> "code"]
LocalStep(s) == [step |-> s, by |-> "local"]

GreetUserInstructions == <<Clicked("WaitPeer")>>
GreetUserCodeExchange == <<Auto("GetGreeterSas"), Auto("WaitPeerTrust"),
                           Auto("GetClaimerSas"), Code("SignifyTrust")>>
GreetUserCheckInfo == <<Auto("GetClaimRequests"), Clicked("CreateNewUser")>>
GreetDeviceInstructions == <<Clicked("WaitPeer")>>
GreetDeviceCodeExchange == <<Auto("GetGreeterSas"), Auto("WaitPeerTrust"),
                             Auto("GetClaimerSas"), Code("SignifyTrust")>>
ClaimUserInstructions == <<Clicked("WaitPeer")>>

ClaimUserCodeExchange == <<Auto("GetGreeterSas"), Code("SignifyTrust"),
                           Auto("GetClaimerSas"), Auto("WaitPeerTrust")>>
ClaimUserProvideInfo == <<Clicked("ClaimUser")>>
ClaimUserFinalize == <<LocalStep("SaveDevice")>>
ClaimDeviceInstructions == <<Clicked("WaitPeer")>>
ClaimDeviceCodeExchange == <<Auto("GetGreeterSas"), Code("SignifyTrust"),
                             Auto("GetClaimerSas"), Auto("WaitPeerTrust")>>
ClaimDeviceProvideInfo == <<Clicked("ClaimDevice")>>

Run(k) == CASE k = "greet_user" -> GreetUserRun
            [] k = "greet_device" -> GreetDeviceRun
            [] k = "claim_user" -> ClaimUserRun
            [] k = "claim_device" -> ClaimDeviceRun

Pages(k) ==
  CASE k = "greet_user" -> <<GreetUserInstructions, GreetUserCodeExchange, GreetUserCheckInfo>>
    [] k = "greet_device" -> <<GreetDeviceInstructions, GreetDeviceCodeExchange>>
    [] k = "claim_user" -> <<ClaimUserInstructions, ClaimUserCodeExchange,
                             ClaimUserProvideInfo, ClaimUserFinalize>>
    [] k = "claim_device" -> <<ClaimDeviceInstructions, ClaimDeviceCodeExchange,
                               ClaimDeviceProvideInfo>>

Claims == wiz.kind \in {"claim_user", "claim_device"}

\* The answers that are sent outside any try block.
CannotFail == {IF Claims THEN "GetClaimerSas" ELSE "GetGreeterSas"}

-----------------------------------------------------------------------------
(* Pages, jobs and workers.                                                *)

NoPage == [no |-> 0, attempt |-> 0, at |-> 1, job |-> "none"]

\* A page shows its first item: a job is submitted at once, or awaits a click.
JobFor(item) == IF item.by = "page" THEN "sent" ELSE "none"
ShowPage(n, a) ==
  [no |-> n, attempt |-> a, at |-> 1, job |-> JobFor(Pages(wiz.kind)[n][1])]
Item == Pages(wiz.kind)[page.no][page.at]

NewWorker(a) == [attempt |-> a, at |-> 1, answer |-> "none", st |-> IF Claims THEN "connecting" ELSE "receiving"]
NewInfo(a) == [attempt |-> a, job |-> IF Claims THEN "sent" ELSE "none"]

WizardInit ==
  \E k \in Wizards :
    LET claims == k \in {"claim_user", "claim_device"}
    IN  /\ wiz = [kind |-> k, attempt |-> 1, visible |-> TRUE, result |-> "none"]
        /\ page = IF claims THEN NoPage
                  ELSE [no |-> 1, attempt |-> 1, at |-> 1, job |-> "none"]
        /\ info = [attempt |-> 1, job |-> IF claims THEN "sent" ELSE "none"]
        /\ worker = [attempt |-> 1, at |-> 1, answer |-> "none",
                     st |-> IF claims THEN "connecting" ELSE "receiving"]
        /\ qtSignals = <<>>
        /\ broken = FALSE

Signal(w, a, p, s) == [what |-> w, attempt |-> a, page |-> p, status |-> s]
PageId == <<page.no, page.attempt>>
Outstanding(j) == j \in {"sent", "asked"}

\* The jobs that cancel() ends, each of which then signals that it was
\* cancelled.  The pages of the greeters have no cancel.
Cancelled ==
  (IF Claims /\ Outstanding(page.job)
   THEN <<Signal("step", page.attempt, PageId, "cancelled")>> ELSE <<>>)
  \o (IF Outstanding(info.job)
      THEN <<Signal("info", info.attempt, <<>>, "cancelled")>> ELSE <<>>)
  \o (IF worker.st # "ended"
      THEN <<Signal("worker", worker.attempt, <<>>, "cancelled")>> ELSE <<>>)

\* The dialog closes (reject, accept, or the person closes it): on_close.
\* After that the worker has ended, and so have the jobs that have a cancel.
CloseDialogWith(result, queue) ==
  /\ wiz' = [wiz EXCEPT !.visible = FALSE, !.result = result]
  /\ worker' = [worker EXCEPT !.st = "ended"]
  /\ page' = [page EXCEPT !.job = IF Claims /\ Outstanding(@) THEN "cancelled" ELSE @]
  /\ info' = [info EXCEPT !.job = IF Outstanding(@) THEN "cancelled" ELSE @]
  /\ qtSignals' = queue \o Cancelled
  /\ UNCHANGED broken

\* restart: cancel, a new worker with new channels.  A claimer keeps the page
\* it shows, whose buttons may still be clicked, until the invitation is
\* retrieved again.  No page starts again while a job of its own is under way.
Restart(queue) ==
  LET a == wiz.attempt + 1
  IN  /\ wiz.attempt < MaxAttempts
      /\ wiz' = [wiz EXCEPT !.attempt = a]
      /\ worker' = NewWorker(a)
      /\ info' = NewInfo(a)
      /\ page' = CASE ~ Claims -> ShowPage(1, a)
                   [] Claims /\ page.no # 0 /\ Item.by = "click" -> [page EXCEPT !.job = "none"]
                   [] OTHER -> page
      /\ qtSignals' = queue \o Cancelled
      /\ UNCHANGED broken

\* _on_page_failed; the finalize page always closes the dialog.
PageFailed(status, queue) ==
  \/ /\ ~ wiz.visible
     /\ qtSignals' = queue
     /\ UNCHANGED <<wiz, page, info, worker, broken>>
  \/ /\ wiz.visible
     /\ status \in {"cancelled", "offline", "used"}
     /\ CloseDialogWith("rejected", queue)
  \/ /\ wiz.visible
     /\ status \notin {"cancelled", "offline", "used"}
     /\ Restart(queue)

-----------------------------------------------------------------------------
(* The trio thread.                                                        *)

WorkerConnects ==
  /\ worker.st = "connecting"
  /\ worker' = [worker EXCEPT !.st = "receiving"]
  /\ UNCHANGED <<wiz, page, info, qtSignals, broken>>

\* The server is not available, or refuses the invitation.
WorkerFails ==
  /\ worker.st = "connecting"
  /\ worker' = [worker EXCEPT !.st = "ended"]
  /\ qtSignals' = Append(qtSignals, Signal("worker", worker.attempt, <<>>, "error"))
  /\ UNCHANGED <<wiz, page, info, broken>>

Expected == Run(wiz.kind)[worker.at]

\* A job sends its step on the channels of its worker.
WorkerReceivesInfo ==
  /\ worker.st = "receiving" /\ info.job = "sent" /\ info.attempt = worker.attempt
  /\ worker' = [worker EXCEPT !.st = "working"]
  /\ info' = [info EXCEPT !.job = "asked"]
  /\ broken' = (broken \/ Expected # "RetrieveInfo")
  /\ UNCHANGED <<wiz, page, qtSignals>>

WorkerReceivesStep ==
  /\ worker.st = "receiving" /\ page.job = "sent" /\ page.attempt = worker.attempt
  /\ worker' = [worker EXCEPT !.st = "working"]
  /\ page' = [page EXCEPT !.job = "asked"]
  /\ broken' = (broken \/ Expected # Item.step)
  /\ UNCHANGED <<wiz, info, qtSignals>>

\* The worker does the step with the peer and answers; after a failure it
\* waits for the next step all the same.
WorkerAnswers(status) ==
  LET last == worker.at = Len(Run(wiz.kind))
  IN  /\ worker.st = "working"
      /\ status # "ok" => Expected \notin CannotFail
      /\ worker' = [worker EXCEPT !.st = IF last THEN "ended" ELSE "receiving",
                                  !.at = IF last THEN @ ELSE @ + 1, !.answer = status]
      /\ qtSignals' = qtSignals
           \o (IF info.job = "asked"
               THEN <<Signal("info", info.attempt, <<>>, status)>>
               ELSE <<Signal("step", page.attempt, PageId, status)>>)
           \o (IF last THEN <<Signal("worker", worker.attempt, <<>>, "ok")>> ELSE <<>>)
      /\ info' = [info EXCEPT !.job = IF @ = "asked" THEN "done" ELSE @]
      /\ page' = [page EXCEPT !.job = IF info.job # "asked" THEN "done" ELSE @]
      /\ UNCHANGED <<wiz, broken>>

-----------------------------------------------------------------------------
(* The Qt thread: what the person does.                                    *)

\* The button of a page, which is disabled afterwards.  The page uses the
\* worker it was made for, which may be gone.
ClickStep ==
  /\ wiz.visible /\ page.no # 0 /\ page.job = "none"
  /\ Item.by \in {"click", "code"}
  /\ page' = [page EXCEPT !.job = "sent"]
  /\ UNCHANGED <<wiz, info, worker, qtSignals, broken>>

\* A wrong code, or none of them.
ClickWrongCode ==
  /\ wiz.visible /\ page.no # 0 /\ page.job = "none" /\ Item.by = "code"
  /\ PageFailed("wrong_code", qtSignals)

\* save_device_with_password; a device of that name may exist.
ClickFinalize ==
  /\ wiz.visible /\ page.no # 0 /\ page.job = "none" /\ Item.by = "local"
  /\ \E result \in {"accepted", "unsaved"} : CloseDialogWith(result, qtSignals)

CloseDialog ==
  /\ wiz.visible
  /\ CloseDialogWith("closed", qtSignals)

-----------------------------------------------------------------------------
(* The Qt thread: signals.                                                 *)

\* The page shows what comes after its current job.
Advance(queue) ==
  LET items == Pages(wiz.kind)[page.no]
  IN  IF page.at < Len(items)
      THEN /\ page' = [page EXCEPT !.at = @ + 1, !.job = JobFor(items[page.at + 1])]
           /\ qtSignals' = queue
           /\ UNCHANGED <<wiz, info, worker, broken>>
      ELSE IF page.no < Len(Pages(wiz.kind))
      THEN /\ page' = ShowPage(page.no + 1, wiz.attempt)
           /\ qtSignals' = queue
           /\ UNCHANGED <<wiz, info, worker, broken>>
      ELSE CloseDialogWith("accepted", queue)

\* The job of a page ended; the page compares it with the job it submitted.
HandleStep(s, queue) ==
  IF s.status = "ok" THEN Advance(queue) ELSE PageFailed(s.status, queue)

\* Mutant: the job is not compared with the current one.
IsCurrentInfoAlways(s) == TRUE

IsCurrentInfo(s) == s.attempt = info.attempt

HandleInfo(s, queue) ==
  IF ~ IsCurrentInfo(s)
  THEN qtSignals' = queue /\ UNCHANGED <<wiz, page, info, worker, broken>>
  ELSE IF s.status = "ok"
  THEN /\ page' = ShowPage(1, wiz.attempt)
       /\ info' = [info EXCEPT !.job = "none"]
       /\ qtSignals' = queue
       /\ UNCHANGED <<wiz, worker, broken>>
  ELSE CloseDialogWith("rejected", queue)

\* A worker that was cancelled, or is not the current one, is ignored.
EndsDialog(s) == s.status = "error" /\ s.attempt = worker.attempt

HandleWorker(s, queue) ==
  IF EndsDialog(s) THEN CloseDialogWith("rejected", queue)
  ELSE qtSignals' = queue /\ UNCHANGED <<wiz, page, info, worker, broken>>

DeliverSignal ==
  /\ qtSignals # <<>>
  /\ LET s == Head(qtSignals)
     IN  CASE s.what = "step" -> HandleStep(s, Tail(qtSignals))
           [] s.what = "info" -> HandleInfo(s, Tail(qtSignals))
           [] s.what = "worker" -> HandleWorker(s, Tail(qtSignals))

WizardNext ==
  \/ WorkerConnects \/ WorkerFails
  \/ WorkerReceivesInfo \/ WorkerReceivesStep
  \/ \E status \in {"ok", "offline", "used", "reset"} : WorkerAnswers(status)
  \/ ClickStep \/ ClickWrongCode \/ ClickFinalize \/ CloseDialog
  \/ DeliverSignal

WizardSpec == WizardInit /\ [][WizardNext]_wizardVars

-----------------------------------------------------------------------------

JobStates == {"none", "sent", "asked", "done", "cancelled"}

\* Everything has its type; a dialog that is closed has no worker any more;
\* the worker works for exactly one job; and the signals of jobs of pages are,
\* while the dialog is shown, those of the page it shows.
WizardTypeOK ==
  /\ wiz \in [kind : WizardKinds, attempt : 1 .. MaxAttempts, visible : BOOLEAN,
              result : {"none", "accepted", "rejected", "closed", "unsaved"}]
  /\ page.job \in JobStates /\ info.job \in JobStates
  /\ worker.st \in {"connecting", "receiving", "working", "ended"}
  /\ ~ wiz.visible => worker.st = "ended"
  /\ worker.st = "working" => (page.job = "asked") # (info.job = "asked")
  /\ wiz.visible => \A i \in DOMAIN qtSignals :
                     qtSignals[i].what = "step" => qtSignals[i].page = PageId

\* The jobs of the pages come in the order that the worker asserts
\* (the assert r == self.Step... of Greeter.run and Claimer.run), whatever
\* fails, is clicked or starts again.
StepsInOrder == ~ broken

Pending(w, a, statuses) ==
  \E i \in DOMAIN qtSignals : /\ qtSignals[i].what = w /\ qtSignals[i].attempt = a
                            /\ qtSignals[i].status \in statuses

Failures == {"error", "offline", "used", "reset", "cancelled"}

\* A dialog that is shown never waits for a worker that is gone: then its end
\* is already signalled and closes the dialog.  A page left over from an
\* earlier attempt is about to be replaced, or the dialog to be closed.
NoOrphanWait ==
  wiz.visible =>
    /\ (\/ Outstanding(page.job) /\ page.attempt = wiz.attempt
        \/ Outstanding(info.job))
       => worker.st # "ended" \/ Pending("worker", worker.attempt, {"error"})
    /\ page.attempt # wiz.attempt
       => \/ Outstanding(info.job)
          \/ Pending("info", wiz.attempt, Failures \cup {"ok"})
          \/ Pending("worker", wiz.attempt, {"error"})

\* The dialog reports success only when the last step of the worker did
\* succeed: the user or the device was created, or claimed.
AcceptedIsDone ==
  wiz.result = "accepted" =>
    worker.at = Len(Run(wiz.kind)) /\ worker.answer = "ok"

\* A signal left over from an earlier attempt never closes the dialog (the
\* "safety net for concurrency issues" of the handlers).
StaleSignalsAreIgnored ==
  [][wiz.visible /\ wiz'.result = "rejected" => Head(qtSignals).attempt = wiz.attempt]_wizardVars

\* The dialogs of an enrollment, for any order of clicks and signals: the steps are taken in
\* order, no dialog waits for a worker that is gone, success is shown for what was done, and
\* the signal of a former job changes nothing.
WizardsAreSound ==
  /\ [](WizardTypeOK /\ StepsInOrder /\ NoOrphanWait /\ AcceptedIsDone)
  /\ StaleSignalsAreIgnored
====
