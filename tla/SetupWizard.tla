----------------------------- MODULE SetupWizard -----------------------------
\* The setup wizard (SetupWizard.tsx): four steps the user walks through in any
\* order, each of which reports by a callback that what it is for has really
\* happened, possibly after the user has left it; the list of what is done is
\* shown at the end. App.tsx opens the wizard by itself once, on the first start
\* without a configuration.
EXTENDS Naturals, Sequences

CONSTANTS
  MaxOpens,    \* bound: times the wizard is opened
  MaxChanges   \* bound: times the band's connection changes

VARIABLES
  wizard,      \* open, currentIndex, the checks it began, how it was finished
  stepExecution,
  running,     \* the imports and installs under way, by which wizard: mine, old
  truth,       \* what is really so: a valid configuration, a connected band
  prompted,    \* pulse-setup-prompted: no, asking (in this start), yes
  opened, changed,    \* the bounds used up
  told         \* for the properties: the steps this wizard was told have succeeded

setupVars == <<wizard, stepExecution, running, truth, prompted, opened, changed, told>>

StepIds == <<"import_log", "connect_band", "install_app", "verify_quota">>
StepSet == {StepIds[i] : i \in 1..Len(StepIds)}
Current == StepIds[wizard.index]
Closed == [open |-> FALSE, index |-> 1, checks |-> {}, outcome |-> "none"]

SetupInit ==
  /\ wizard = Closed
  /\ stepExecution = [s \in StepSet |-> "pending"]
  /\ running = [import |-> {}, install |-> {}]
  /\ truth \in [config : BOOLEAN, band : {FALSE}]
  /\ prompted \in {"no", "yes"}
  /\ opened = 0 /\ changed = 0 /\ told = {}

\* "pending" becomes "visited" when a step is shown for the first time.
Visited(exec, s) == [exec EXCEPT ![s] = IF @ = "pending" THEN "visited" ELSE @]

\* Mutant: a step that was shown and left counts as done.
Passed_AsDone(exec, s) == [exec EXCEPT ![s] = "success"]

\* A step left without success is skipped.
Passed(exec, s) == [exec EXCEPT ![s] = IF @ = "success" THEN @ ELSE "skipped"]

\* setStepExecution in a callback: a wizard that is gone does nothing, and one
\* that was opened since is another one.
Succeeds(exec, s) == [exec EXCEPT ![s] = "success"]

-----------------------------------------------------------------------------

\* App.tsx opens it at the first step.
Opens ==
  /\ ~wizard.open /\ opened < MaxOpens
  /\ wizard' = [open |-> TRUE, index |-> 1, checks |-> {"config", "band"}, outcome |-> "none"]
  /\ stepExecution' = Visited([s \in StepSet |-> "pending"], StepIds[1])
  /\ running' = [op \in DOMAIN running |-> IF running[op] = {} THEN {} ELSE {"old"}]
  /\ opened' = opened + 1 /\ told' = {}

\* The user opens it, on the band's page.
OpenSetup ==
  /\ Opens
  /\ UNCHANGED <<truth, prompted, changed>>

\* The main window starts: it asks for the configuration once, ever, and opens
\* the wizard if there is none.
AskPrompt ==
  /\ prompted = "no"
  /\ prompted' = "asking"
  /\ UNCHANGED <<wizard, stepExecution, running, truth, opened, changed, told>>

Prompt ==
  /\ prompted = "asking"
  /\ prompted' = "yes"
  /\ IF truth.config \/ wizard.open
     THEN UNCHANGED <<wizard, stepExecution, running, opened, told>>
     ELSE Opens
  /\ UNCHANGED <<truth, changed>>

\* The two checks of a wizard that has just been opened come back: what is
\* already there counts as done.
Comes(what, s, so) ==
  /\ wizard.open /\ what \in wizard.checks
  /\ wizard' = [wizard EXCEPT !.checks = @ \ {what}]
  /\ stepExecution' = IF so THEN Succeeds(stepExecution, s) ELSE stepExecution
  /\ told' = IF so THEN told \cup {s} ELSE told
  /\ UNCHANGED <<running, truth, prompted, opened, changed>>

MountChecks ==
  \/ Comes("config", "import_log", truth.config)
  \/ Comes("band", "connect_band", truth.band)

\* A step begins what it is for: saving a configuration, installing the app. What
\* an earlier wizard began may still go on.
Begin(op, s) ==
  /\ wizard.open /\ Current = s /\ "mine" \notin running[op]
  /\ running' = [running EXCEPT ![op] = @ \cup {"mine"}]
  /\ UNCHANGED <<wizard, stepExecution, truth, prompted, opened, changed, told>>

\* The save ends. Success moves the wizard to the second step, wherever the user
\* has gone meanwhile.
ImportEnds(ok, whose) ==
  /\ whose \in running.import
  /\ truth' = IF ok THEN [truth EXCEPT !.config = TRUE] ELSE truth
  /\ IF ok /\ whose = "mine" /\ wizard.open
     THEN /\ stepExecution' = Visited(Succeeds(stepExecution, "import_log"), "connect_band")
          /\ wizard' = [wizard EXCEPT !.index = 2]
          /\ told' = told \cup {"import_log"}
     ELSE UNCHANGED <<stepExecution, wizard, told>>
  /\ running' = [running EXCEPT !.import = @ \ {whose}]
  /\ UNCHANGED <<prompted, opened, changed>>

InstallEnds(ok, whose) ==
  /\ whose \in running.install
  /\ IF ok /\ whose = "mine" /\ wizard.open
     THEN /\ stepExecution' = Succeeds(stepExecution, "install_app")
          /\ told' = told \cup {"install_app"}
     ELSE UNCHANGED <<stepExecution, told>>
  /\ running' = [running EXCEPT !.install = @ \ {whose}]
  /\ UNCHANGED <<wizard, truth, prompted, opened, changed>>

\* ConnectBandStep reports once for each time the band becomes ready while it is
\* shown (its notifiedRef), a band that was ready already included.
ConnectReports ==
  /\ wizard.open /\ Current = "connect_band" /\ truth.band
  /\ stepExecution' = Succeeds(stepExecution, "connect_band")
  /\ told' = told \cup {"connect_band"}
  /\ UNCHANGED <<wizard, running, truth, prompted, opened, changed>>

\* The band connects and leaves (external).
BandChanges ==
  /\ changed < MaxChanges
  /\ truth' = [truth EXCEPT !.band = ~@]
  /\ changed' = changed + 1
  /\ UNCHANGED <<wizard, stepExecution, running, prompted, opened, told>>

\* handleFinish closes the wizard.
Finished(outcome) == wizard' = [wizard EXCEPT !.open = FALSE, !.checks = {}, !.outcome = outcome]

\* The user says the band shows the quota.
VerifyConfirmed ==
  /\ wizard.open /\ Current = "verify_quota"
  /\ stepExecution' = Succeeds(stepExecution, "verify_quota")
  /\ told' = told \cup {"verify_quota"}
  /\ Finished("confirmed")
  /\ UNCHANGED <<running, truth, prompted, opened, changed>>

\* handleNext, and on the last step the end of the wizard.
NextStep ==
  /\ wizard.open
  /\ IF wizard.index = Len(StepIds)
     THEN /\ stepExecution' = Passed(stepExecution, Current)
          /\ Finished(IF stepExecution[Current] = "success" THEN "confirmed" ELSE "deferred")
     ELSE /\ wizard' = [wizard EXCEPT !.index = @ + 1]
          /\ stepExecution' = Visited(Passed(stepExecution, Current), StepIds[wizard.index + 1])
  /\ UNCHANGED <<running, truth, prompted, opened, changed, told>>

Prev ==
  /\ wizard.open /\ wizard.index > 1
  /\ wizard' = [wizard EXCEPT !.index = @ - 1]
  /\ UNCHANGED <<stepExecution, running, truth, prompted, opened, changed, told>>

ClickStep ==
  /\ wizard.open
  /\ \E i \in 1..Len(StepIds) :
       /\ wizard' = [wizard EXCEPT !.index = i]
       /\ stepExecution' = Visited(stepExecution, StepIds[i])
  /\ UNCHANGED <<running, truth, prompted, opened, changed, told>>

CloseSetup ==
  /\ wizard.open
  /\ wizard' = [wizard EXCEPT !.open = FALSE, !.checks = {}]
  /\ UNCHANGED <<stepExecution, running, truth, prompted, opened, changed, told>>

SetupNext ==
  \/ OpenSetup \/ AskPrompt \/ Prompt \/ MountChecks
  \/ Begin("import", "import_log") \/ Begin("install", "install_app")
  \/ \E ok \in BOOLEAN, whose \in {"mine", "old"} : ImportEnds(ok, whose) \/ InstallEnds(ok, whose)
  \/ ConnectReports \/ BandChanges \/ VerifyConfirmed \/ NextStep \/ Prev \/ ClickStep \/ CloseSetup

-----------------------------------------------------------------------------

\* The list at the end says what really happened: a step is marked as done
\* exactly if this wizard was told so, in whatever order the steps were visited
\* and the callbacks came, also late ones and those of an earlier wizard; and the
\* setup is reported as confirmed only if the user confirmed it
\* (SetupWizard.tsx, stepExecution).
SuccessIsEarned ==
  /\ wizard.open => \A s \in StepSet : (stepExecution[s] = "success") <=> (s \in told)
  /\ wizard.outcome = "confirmed" => "verify_quota" \in told
=============================================================================
