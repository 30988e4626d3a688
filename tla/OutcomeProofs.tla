---------------------------- MODULE OutcomeProofs ---------------------------
(***************************************************************************)
(* What the operations of Intervention have done once they tell, for any   *)
(* callers, processes, addresses, settings and bounds.  First the network: *)
(* a blackout that is shown was engaged (ShownWasEngaged), a sever that    *)
(* succeeded has left no connection it counted (SeveredAreGone), a command *)
(* that failed or was cancelled has done nothing (FailedIsHarmless), and   *)
(* once every command has ended a blackout is shown exactly while its      *)
(* table is there (ShownIsTrue).  Then the signals, and last the contract  *)
(* of a command (CommandContract), which Intervention is shown to keep.    *)
(*                                                                         *)
(* None is inductive: each follows what a helper has done until its        *)
(* command has told the user, and is carried by Guards. Its parts say,     *)
(* caller by caller, what the labels of the two runners have come to mean: *)
(* Engagement for the marker, Severance for the counts, Harmless for the   *)
(* outcomes. Truth adds the phases of one blackout, which hold as long as  *)
(* commands run one at a time, no prompt outlives its caller and nobody    *)
(* else flushes the ruleset.                                               *)
(***************************************************************************)
EXTENDS InterventionProofs

\* A blackout that a runner is about to record, or reports, was engaged.
Engagement(c) ==
  LET u == run[c]["user"]
      h == run[c]["root"] IN
  /\ u.at \in {"mark", "write"} => engaged
  /\ h.at = "done" /\ h.op = "apply" /\ h.outcome = "ok" => engaged

\* A sever that succeeded has left nothing the command had counted; but the
\* legacy tool has only run, and its command counts once more.
Severance(c) ==
  LET u == run[c]["user"]
      h == run[c]["root"] IN
  /\ u.counted \subseteq 1..opened
  /\ h.at = "done" /\ h.op = "sever" /\ h.outcome = "ok" /\ setting.route # "legacy" =>
       u.counted \cap conns = {}
  /\ u.at = "done" /\ u.op = "sever" /\ u.outcome = "ok" => u.counted \cap conns = {}

\* The labels of a runner that has not acted yet.
Before == {"open", "check", "pin", "send", "nft", "count", "kill", "recount", "prompt"}

\* A command that has acted is past every step that can fail harmlessly, and
\* none of its two runners reports a failure.
Harmless(c) ==
  LET u == run[c]["user"]
      h == run[c]["root"] IN
  acted[c] =>
    /\ u.at \notin Before /\ h.at \notin Before
    /\ h.at # "idle" => h.op # "sever"
    /\ u.at # "idle" => u.op # "sever"
    /\ h.at = "done" => h.outcome \notin {"failed", "cancelled"}
    /\ u.at = "done" => u.outcome \notin {"failed", "cancelled"}
    /\ u.at \in {"capture", "mark", "write", "unmark"} => u.outcome \notin {"failed", "cancelled"}

\* What holds of one caller.
Guarded(c) == Engagement(c) /\ Severance(c) /\ Harmless(c)

\* The invariant: what holds of the network and of every caller.
Guards == (Shown => engaged) /\ conns \subseteq 1..opened /\ \A c \in Caller : Guarded(c)

-----------------------------------------------------------------------------
(***************************************************************************)
(* Lemmas for the steps of one caller.                                     *)
(***************************************************************************)

\* The two ways to name a runner.
LEMMA Dotted ==
  ASSUME IInv, NEW c \in Caller PROVE run[c].user = run[c]["user"] /\ run[c].root = run[c]["root"]
  BY TypeOf DEF IInv, Shaped

\* The step is one of caller c: nothing changes for the others.
Elsewhere(c) ==
  /\ OtherCallers(c)
  /\ \A d \in Caller \ {c} : acted'[d] = acted[d]
  /\ setting' = setting
  /\ engaged => engaged'
  /\ opened \in Nat /\ opened' \in Nat /\ opened <= opened'
  /\ conns' \subseteq 1..opened' /\ conns' \cap 1..opened \subseteq conns

LEMMA GuardsKept ==
  ASSUME Guards, NEW c \in Caller, Elsewhere(c), Guarded(c)', Shown' => Shown \/ engaged'
  PROVE  Guards'
<1>1. ASSUME NEW d \in Caller, d # c PROVE Guarded(d)'
  <2>0. run'[d]["user"] = run[d]["user"] /\ run'[d]["root"] = run[d]["root"]
    BY <1>1 DEF Elsewhere, OtherCallers, Level
  <2>1. Engagement(d)'
    BY <1>1, <2>0 DEF Guards, Guarded, Elsewhere, Engagement
  <2>2. Severance(d)'
    BY <1>1, <2>0 DEF Guards, Guarded, Elsewhere, Severance
  <2>3. Harmless(d)'
    BY <1>1, <2>0 DEF Guards, Guarded, Elsewhere, Harmless
  <2> QED BY <2>1, <2>2, <2>3 DEF Guarded
<1> QED BY <1>1 DEF Guards, Elsewhere

LEMMA OthersAll ==
  ASSUME NEW c \in Caller, NEW l \in Level, Others(c, l) PROVE OtherCallers(c)
  BY DEF Others, OtherCallers

LEMMA Standing ==
  ASSUME IInv, Guards, NEW c \in Caller
  PROVE  /\ Shaped /\ Engagement(c) /\ Severance(c) /\ Harmless(c)
         /\ Paired(run[c]["user"], run[c]["root"])
         /\ Placed(run[c]["user"]) /\ Placed(run[c]["root"])
         /\ opened \in Nat /\ conns \subseteq 1..opened
         /\ acted \in [Caller -> BOOLEAN]
<1>1. opened \in Nat
  BY DEF IInv, World, Network
<1> QED BY <1>1, Dotted DEF IInv, World, Stage, Shaped, Guards, Guarded, Level

\* A step of c that leaves the network and acted alone.
LEMMA NothingElse ==
  ASSUME IInv, Guards, NEW c \in Caller, OtherCallers(c), UNCHANGED <<acted, engaged, conns,
         opened, setting>>
  PROVE  Elsewhere(c)
  BY Standing DEF Elsewhere

-----------------------------------------------------------------------------
(***************************************************************************)
(* Each action of Escalation.                                              *)
(***************************************************************************)

LEMMA RequestGuards ==
  ASSUME IInv, Guards, NEW c \in Caller, NEW job \in setting.jobs, Request(c, job),
         UNCHANGED netVars
  PROVE  Guards'
<1>0. OtherCallers(c) /\ UNCHANGED <<engaged, conns, opened, setting>> /\ ~acted'[c]
      /\ \A d \in Caller \ {c} : acted'[d] = acted[d]
  BY RequestRun, Standing DEF Request, netVars
<1>1. Elsewhere(c)
  BY <1>0, Standing DEF Elsewhere
<1>2. Engagement(c)'
  BY <1>0, Standing, RequestRun, IdleFields DEF Engagement, Fresh, FirstStep, Before
<1>3. Severance(c)'
  BY <1>0, Standing, RequestRun, IdleFields DEF Severance, Fresh, FirstStep, Before
<1>4. Harmless(c)'
  BY <1>0, Standing, RequestRun, IdleFields DEF Harmless, Fresh, FirstStep, Before
<1>5. Shown' => Shown \/ engaged'
  BY DEF Shown, netVars
<1> QED BY <1>1, <1>2, <1>3, <1>4, <1>5, GuardsKept DEF Guarded

LEMMA ApproveGuards ==
  ASSUME IInv, Guards, NEW c \in Caller, Approve(c), UNCHANGED netVars
  PROVE  Guards'
<1>6. PICK x : /\ Goes(c, "root", x) /\ x \in {"open", "nft", "count", "kill"}
               /\ run[c]["root"].at = "prompt"
  BY Dotted DEF Approve, FirstStep, At
<1>0. /\ Others(c, "root") /\ OtherCallers(c) /\ run'[c]["root"].at = x
      /\ Core(run'[c]["root"], run[c]["root"])
      /\ UNCHANGED <<acted, engaged, conns, opened, setting>> /\ run'[c]["user"] = run[c]["user"]
  BY <1>6, GoesRun, Standing, OthersAll DEF Approve, netVars, Level, Others
<1>1. Elsewhere(c)
  BY <1>0, NothingElse
<1>2. Engagement(c)'
  BY <1>0, <1>6, Standing DEF Engagement, Core, Target5, Before
<1>3. Severance(c)'
  BY <1>0, <1>6, Standing DEF Severance, Core, Target5, Before
<1>4. Harmless(c)'
  BY <1>0, <1>6, Standing DEF Harmless, Core, Target5, Before
<1>5. Shown' => Shown \/ engaged'
  BY DEF Shown, netVars
<1> QED BY <1>1, <1>2, <1>3, <1>4, <1>5, GuardsKept DEF Guarded

LEMMA DenyGuards ==
  ASSUME IInv, Guards, NEW c \in Caller, Deny(c), UNCHANGED netVars
  PROVE  Guards'
<1>0. /\ OtherCallers(c) /\ UNCHANGED <<acted, engaged, conns, opened, setting>>
      /\ run[c]["root"].at = "prompt"
      /\ Core(run'[c]["user"], run[c]["user"]) /\ run'[c]["root"] = Idle
  BY DenyRun, Dotted DEF Deny, At, netVars, Answered
<1>1. Elsewhere(c)
  BY <1>0, NothingElse
<1>2. Engagement(c)'
  BY <1>0, Standing, DenyRun, IdleFields DEF Engagement, Core, Target5, Before
<1>3. Severance(c)'
  BY <1>0, Standing, DenyRun, IdleFields DEF Severance, Core, Target5, Before
<1>4. Harmless(c)'
  BY <1>0, Standing, DenyRun, IdleFields DEF Harmless, Core, Target5, Before
<1>5. Shown' => Shown \/ engaged'
  BY DEF Shown, netVars
<1> QED BY <1>1, <1>2, <1>3, <1>4, <1>5, GuardsKept DEF Guarded

LEMMA ReturnGuards ==
  ASSUME IInv, Guards, NEW c \in Caller, Return(c), UNCHANGED netVars
  PROVE  Guards'
<1>0. /\ OtherCallers(c) /\ UNCHANGED <<acted, engaged, conns, opened, setting>>
      /\ Core(run'[c]["user"], run[c]["user"]) /\ run'[c]["root"] = Idle
  BY ReturnRun DEF Return, netVars, Answered
<1>1. Elsewhere(c)
  BY <1>0, NothingElse
<1>2. Engagement(c)'
  BY <1>0, Standing, ReturnRun, IdleFields DEF Engagement, Core, Target5, Before, Paired,
     AfterHelper
<1>3. Severance(c)'
  BY <1>0, Standing, ReturnRun, IdleFields DEF Severance, Core, Target5, Before, Paired, AfterHelper
<1>4. Harmless(c)'
  <2> DEFINE u == run[c]["user"]
             n == run'[c]["user"]
  <2>1. CASE n = u
    BY <1>0, <2>1, Standing, IdleFields DEF Harmless, Before
  <2>2. CASE u.at = "overdue" /\ n.at = "done" /\ n.outcome = "timeout"
    BY <1>0, <2>2, Standing, IdleFields DEF Harmless, Before, Core, Target5
  <2>3. CASE /\ u.at = "await" /\ n.at = AfterHelper(u, run[c]["root"].outcome)
             /\ n.outcome = run[c]["root"].outcome
    <3>1. run[c]["root"].op = u.op /\ run[c]["root"].at = "done"
      BY <2>3, Standing, ReturnRun DEF Paired
    <3>2. n.at \in {"capture", "mark", "unmark", "done"} \/ (n.at = "recount" /\ u.op = "sever")
      BY <2>3 DEF AfterHelper
    <3> QED BY <1>0, <2>3, <3>1, <3>2, Standing, IdleFields DEF Harmless, Before, Core, Target5
  <2> QED BY <2>1, <2>2, <2>3, ReturnRun
<1>5. Shown' => Shown \/ engaged'
  BY DEF Shown, netVars
<1> QED BY <1>1, <1>2, <1>3, <1>4, <1>5, GuardsKept DEF Guarded

LEMMA TimeOutGuards ==
  ASSUME IInv, Guards, NEW c \in Caller, TimeOut(c), UNCHANGED netVars
  PROVE  Guards'
<1>0. OtherCallers(c) /\ UNCHANGED <<acted, engaged, conns, opened, setting>>
  BY TimeOutRun DEF TimeOut, netVars
<1>1. Elsewhere(c)
  BY <1>0, NothingElse
<1>2. Engagement(c)'
  BY <1>0, Standing, TimeOutRun, IdleFields DEF Engagement, Core, Target5, Before
<1>3. Severance(c)'
  BY <1>0, Standing, TimeOutRun, IdleFields DEF Severance, Core, Target5, Before
<1>4. Harmless(c)'
  <2>1. run'[c]["user"].at \in {"done", "overdue"} /\ run[c]["user"].at = "await"
    BY TimeOutRun
  <2>2. run'[c]["user"].at = "done" => run'[c]["user"].outcome = "timeout"
    BY TimeOutRun
  <2>3. run'[c]["user"].op = run[c]["user"].op
    BY TimeOutRun DEF Core, Target5
  <2>4. run'[c]["root"] \in {Idle, run[c]["root"]}
    BY TimeOutRun
  <2> QED BY <1>0, <2>1, <2>2, <2>3, <2>4, Standing, IdleFields DEF Harmless, Before
<1>5. Shown' => Shown \/ engaged'
  BY DEF Shown, netVars
<1> QED BY <1>1, <1>2, <1>3, <1>4, <1>5, GuardsKept DEF Guarded

LEMMA CrashGuards ==
  ASSUME IInv, Guards, NEW c \in Caller, Crash(c), UNCHANGED netVars
  PROVE  Guards'
<1>0. /\ OtherCallers(c) /\ UNCHANGED <<acted, engaged, conns, opened, setting>>
      /\ run'[c]["user"] = Idle /\ run'[c]["root"] = run[c]["root"]
  BY CrashRun, OthersAll DEF Crash, netVars, Others, Level
<1>1. Elsewhere(c)
  BY <1>0, NothingElse
<1>2. Engagement(c)'
  BY <1>0, Standing, IdleFields DEF Engagement, Before
<1>3. Severance(c)'
  BY <1>0, Standing, IdleFields DEF Severance, Before
<1>4. Harmless(c)'
  BY <1>0, Standing, IdleFields DEF Harmless, Before
<1>5. Shown' => Shown \/ engaged'
  BY DEF Shown, netVars
<1> QED BY <1>1, <1>2, <1>3, <1>4, <1>5, GuardsKept DEF Guarded

-----------------------------------------------------------------------------
(***************************************************************************)
(* The ways a runner goes on.                                              *)
(***************************************************************************)

LEMMA GoesGuards ==
  ASSUME IInv, Guards, NEW c \in Caller, NEW l \in Level, NEW x, Goes(c, l, x), UNCHANGED <<acted,
         engaged, conns, opened, setting>>,
         run[c][l].at \in Before, x \in Before, Shown' => Shown
  PROVE  Guards'
<1>0. /\ Others(c, l) /\ OtherCallers(c) /\ run'[c][l].at = x /\ Core(run'[c][l], run[c][l])
      /\ run'[c][l].outcome = run[c][l].outcome
  BY GoesRun, Standing, OthersAll
<1>1. Elsewhere(c)
  BY <1>0, NothingElse
<1>2. Engagement(c)'
  BY <1>0, Standing DEF Engagement, Core, Target5, Before, Others, Level
<1>3. Severance(c)'
  BY <1>0, Standing DEF Severance, Core, Target5, Before, Others, Level
<1>4. Harmless(c)'
  BY <1>0, Standing DEF Harmless, Core, Target5, Before, Others, Level
<1>5. Shown' => Shown \/ engaged'
  OBVIOUS
<1> QED BY <1>1, <1>2, <1>3, <1>4, <1>5, GuardsKept DEF Guarded

LEMMA EndsGuards ==
  ASSUME IInv, Guards, NEW c \in Caller, NEW l \in Level, NEW o, Ends(c, l, o), Shown' => Shown,
         run[c][l].at # "idle",
         UNCHANGED <<acted, engaged, conns, opened, setting>>, o \in {"failed",
         "cancelled"} => run[c][l].at \in Before,
         o = "ok" => run[c][l].op # "apply" /\ (run[c][l].op = "sever" => conns = {})
  PROVE  Guards'
<1>0. /\ Others(c, l) /\ OtherCallers(c) /\ run'[c][l].at = "done" /\ Core(run'[c][l], run[c][l])
      /\ run'[c][l].outcome = o
  BY EndsRun, Standing, OthersAll
<1>1. Elsewhere(c)
  BY <1>0, NothingElse
<1>2. Engagement(c)'
  BY <1>0, Standing DEF Engagement, Core, Target5, Before, Others, Level
<1>3. Severance(c)'
  BY <1>0, Standing DEF Severance, Core, Target5, Before, Others, Level
<1>4. Harmless(c)'
  BY <1>0, Standing DEF Harmless, Core, Target5, Before, Others, Level
<1>5. Shown' => Shown \/ engaged'
  OBVIOUS
<1> QED BY <1>1, <1>2, <1>3, <1>4, <1>5, GuardsKept DEF Guarded

LEMMA WaitsGuards ==
  ASSUME IInv, Guards, NEW c \in Caller, Waits(c), Shown' => Shown, UNCHANGED <<acted, engaged,
         conns, opened, setting>>,
         run[c]["user"].at \in Before
  PROVE  Guards'
<1>0. OtherCallers(c)
  BY DEF Waits
<1>1. Elsewhere(c)
  BY <1>0, NothingElse
<1>2. Engagement(c)'
  BY Standing DEF Engagement, Waits, Fresh, Core, Target5, Before
<1>3. Severance(c)'
  BY Standing DEF Severance, Waits, Fresh, Core, Target5, Before
<1>4. Harmless(c)'
  BY Standing DEF Harmless, Waits, Fresh, Core, Target5, Before
<1>5. Shown' => Shown \/ engaged'
  OBVIOUS
<1> QED BY <1>1, <1>2, <1>3, <1>4, <1>5, GuardsKept DEF Guarded

LEMMA EscalatesGuards ==
  ASSUME IInv, Guards, NEW c \in Caller, NEW l \in Level, Escalates(c, l), run[c][l].at \in Before,
         UNCHANGED <<acted, engaged, conns, opened, setting>>, Shown' => Shown
  PROVE  Guards'
<1>1. CASE Ends(c, l, "failed")
  BY <1>1, EndsGuards DEF Before
<1>2. CASE l = "user" /\ Waits(c)
  BY <1>2, WaitsGuards
<1> QED BY <1>1, <1>2, Standing, EscalatesRun

-----------------------------------------------------------------------------
(***************************************************************************)
(* Each action of ProcessSignal.                                           *)
(***************************************************************************)

LEMMA OpenGuards ==
  ASSUME IInv, Guards, NEW c \in Caller, NEW l \in Level, Open(c, l), UNCHANGED netVars
  PROVE  Guards'
<1>0. /\ Others(c, l) /\ OtherCallers(c) /\ run[c][l].at = "open"
      /\ run'[c][l].at = "check" /\ run'[c][l].op = run[c][l].op
      /\ run'[c][l].counted = run[c][l].counted
      /\ UNCHANGED <<acted, engaged, conns, opened, setting>>
  BY OpenRun, Standing, OthersAll DEF Open, At, netVars
<1>1. Elsewhere(c)
  BY <1>0, NothingElse
<1>2. Engagement(c)'
  BY <1>0, Standing DEF Engagement, Before, Others, Level
<1>3. Severance(c)'
  BY <1>0, Standing DEF Severance, Before, Others, Level
<1>4. Harmless(c)'
  BY <1>0, Standing DEF Harmless, Before, Others, Level
<1>5. Shown' => Shown \/ engaged'
  BY DEF Shown, netVars
<1> QED BY <1>1, <1>2, <1>3, <1>4, <1>5, GuardsKept DEF Guarded

LEMMA PinGuards ==
  ASSUME IInv, Guards, NEW c \in Caller, NEW l \in Level, Pin(c, l), ~Ends(c, l, "failed"),
         UNCHANGED netVars
  PROVE  Guards'
<1>0. /\ Others(c, l) /\ OtherCallers(c) /\ run[c][l].at = "pin"
      /\ run'[c][l].at = "send" /\ run'[c][l].op = run[c][l].op
      /\ run'[c][l].counted = run[c][l].counted
      /\ UNCHANGED <<acted, engaged, conns, opened, setting>>
  BY PinRun, Standing, OthersAll DEF Pin, At, netVars
<1>1. Elsewhere(c)
  BY <1>0, NothingElse
<1>2. Engagement(c)'
  BY <1>0, Standing DEF Engagement, Before, Others, Level
<1>3. Severance(c)'
  BY <1>0, Standing DEF Severance, Before, Others, Level
<1>4. Harmless(c)'
  BY <1>0, Standing DEF Harmless, Before, Others, Level
<1>5. Shown' => Shown \/ engaged'
  BY DEF Shown, netVars
<1> QED BY <1>1, <1>2, <1>3, <1>4, <1>5, GuardsKept DEF Guarded

LEMMA CountGuards ==
  ASSUME IInv, Guards, NEW c \in Caller, NEW l \in Level, Count(c, l), ~Ends(c, l, "failed")
  PROVE  Guards'
<1>0. /\ Others(c, l) /\ OtherCallers(c) /\ run[c][l].at = "count"
      /\ run'[c][l].at = "kill" /\ run'[c][l].op = run[c][l].op /\ run'[c][l].counted = conns
      /\ UNCHANGED <<acted, engaged, conns, opened, setting>>
  BY CountRun, Standing, OthersAll DEF Count, At, netVars, Target5
<1>1. Elsewhere(c)
  BY <1>0, NothingElse
<1>2. Engagement(c)'
  BY <1>0, Standing DEF Engagement, Before, Others, Level
<1>3. Severance(c)'
  <2>1. conns \subseteq 1..opened /\ opened' = opened /\ conns' = conns
    BY <1>0, Standing
  <2>2. CASE l = "user"
    BY <1>0, <2>1, <2>2, Standing DEF Severance, Others, Level, Paired
  <2>3. CASE l = "root"
    <3>1. run'[c]["user"] = run[c]["user"] /\ run'[c]["root"].at = "kill"
      BY <1>0, <2>3 DEF Others, Level
    <3> QED BY <2>1, <3>1, Standing DEF Severance
  <2> QED BY <2>2, <2>3 DEF Level
<1>4. Harmless(c)'
  BY <1>0, Standing DEF Harmless, Before, Others, Level
<1>5. Shown' => Shown \/ engaged'
  BY DEF Count, Shown, netVars
<1> QED BY <1>1, <1>2, <1>3, <1>4, <1>5, GuardsKept DEF Guarded

LEMMA CaptureGuards ==
  ASSUME IInv, Guards, NEW c \in Caller, Capture(c), UNCHANGED netVars
  PROVE  Guards'
<1>0. /\ Others(c, "user") /\ OtherCallers(c) /\ run[c]["user"].at = "capture"
      /\ run'[c]["user"].at = "done" /\ Core(run'[c]["user"], run[c]["user"])
      /\ run'[c]["user"].outcome = run[c]["user"].outcome /\ run'[c]["root"] = run[c]["root"]
      /\ UNCHANGED <<acted, engaged, conns, opened, setting>>
  BY CaptureRun, Standing, OthersAll, Dotted DEF Capture, At, netVars, Level, Others
<1>6. run[c]["user"].op = "stop"
  BY <1>0, Standing DEF Placed
<1>1. Elsewhere(c)
  BY <1>0, NothingElse
<1>2. Engagement(c)'
  BY <1>0, <1>6, Standing DEF Engagement, Core, Target5, Before
<1>3. Severance(c)'
  BY <1>0, <1>6, Standing DEF Severance, Core, Target5, Before
<1>4. Harmless(c)'
  BY <1>0, <1>6, Standing DEF Harmless, Core, Target5, Before
<1>5. Shown' => Shown \/ engaged'
  BY DEF Shown, netVars
<1> QED BY <1>1, <1>2, <1>3, <1>4, <1>5, GuardsKept DEF Guarded

LEMMA SentGuards ==
  ASSUME IInv, Guards, NEW c \in Caller, NEW l \in Level, UNCHANGED <<engaged, conns, opened, setting>>,
         Shown' => Shown,
         run' = [run EXCEPT ![c][l].at = AfterSignal(run[c][l].op, l), ![c][l].outcome = "ok"],
         run[c][l].at = "send", acted' = [acted EXCEPT ![c] = TRUE]
  PROVE  Guards'
<1>0. /\ Others(c, l) /\ OtherCallers(c) /\ Core(run'[c][l], run[c][l])
      /\ run'[c][l].at = AfterSignal(run[c][l].op, l) /\ run'[c][l].outcome = "ok"
      /\ \A d \in Caller \ {c} : acted'[d] = acted[d]
  BY SentRun, Standing, OthersAll
<1>6. run[c][l].op \in SignalOp
  BY Standing, ArgIsPid DEF Signalling
<1>7. AfterSignal(run[c][l].op, l) \in {"grace", "capture", "done"}
  BY <1>6 DEF AfterSignal, SignalOp
<1>8. l = "root" => /\ run[c]["user"].at \in {"await", "overdue", "idle"}
                    /\ run[c]["user"].at # "idle" => run[c]["user"].op = run[c][l].op
  BY Standing DEF Paired
<1>9. l = "user" => run[c]["root"].at = "idle"
  BY Standing DEF Paired
<1>1. Elsewhere(c)
  BY <1>0, Standing DEF Elsewhere
<1>2. Engagement(c)'
  BY <1>0, <1>6, <1>7, <1>8, <1>9, Standing DEF Engagement, Core, Target5, Before, Others, Level,
     SignalOp
<1>3. Severance(c)'
  BY <1>0, <1>6, <1>7, <1>8, <1>9, Standing DEF Severance, Core, Target5, Before, Others, Level,
     SignalOp
<1>4. Harmless(c)'
  BY <1>0, <1>6, <1>7, <1>8, <1>9, Standing DEF Harmless, Core, Target5, Before, Others, Level,
     SignalOp
<1>5. Shown' => Shown \/ engaged'
  OBVIOUS
<1> QED BY <1>1, <1>2, <1>3, <1>4, <1>5, GuardsKept DEF Guarded

LEMMA TriedGuards ==
  ASSUME IInv, Guards, NEW c \in Caller, NEW l \in Level, UNCHANGED <<engaged, conns, opened,
         acted, setting>>, Shown' => Shown,
         run' = [run EXCEPT ![c][l].tries = @ + 1]
  PROVE  Guards'
<1>0. /\ Others(c, l) /\ OtherCallers(c) /\ Core(run'[c][l], run[c][l])
      /\ run'[c][l].at = run[c][l].at /\ run'[c][l].outcome = run[c][l].outcome
  BY TriedRun, Standing, OthersAll
<1>1. Elsewhere(c)
  BY <1>0, NothingElse
<1>2. Engagement(c)'
  BY <1>0, Standing DEF Engagement, Core, Target5, Others, Level
<1>3. Severance(c)'
  BY <1>0, Standing DEF Severance, Core, Target5, Others, Level
<1>4. Harmless(c)'
  BY <1>0, Standing DEF Harmless, Core, Target5, Others, Level
<1>5. Shown' => Shown \/ engaged'
  OBVIOUS
<1> QED BY <1>1, <1>2, <1>3, <1>4, <1>5, GuardsKept DEF Guarded

LEMMA KilledGuards ==
  ASSUME IInv, Guards, NEW c \in Caller, NEW l \in Level, Ends(c, l, "ok"), run[c][l].at = "grace",
         UNCHANGED <<engaged, conns, opened, setting>>,
         Shown' => Shown, acted' = [acted EXCEPT ![c] = TRUE]
  PROVE  Guards'
<1>0. /\ Others(c, l) /\ OtherCallers(c) /\ Core(run'[c][l], run[c][l])
      /\ run'[c][l].at = "done" /\ run'[c][l].outcome = "ok"
      /\ \A d \in Caller \ {c} : acted'[d] = acted[d]
  BY EndsRun, Standing, OthersAll
<1>6. run[c][l].op \in SignalOp
  BY Standing, ArgIsPid DEF Signalling
<1>8. l = "root" => /\ run[c]["user"].at \in {"await", "overdue", "idle"}
                    /\ run[c]["user"].at # "idle" => run[c]["user"].op = run[c][l].op
  BY Standing DEF Paired
<1>9. l = "user" => run[c]["root"].at = "idle"
  BY Standing DEF Paired
<1>1. Elsewhere(c)
  BY <1>0, Standing DEF Elsewhere
<1>2. Engagement(c)'
  BY <1>0, <1>6, <1>8, <1>9, Standing DEF Engagement, Core, Target5, Before, Others, Level, SignalOp
<1>3. Severance(c)'
  BY <1>0, <1>6, <1>8, <1>9, Standing DEF Severance, Core, Target5, Before, Others, Level, SignalOp
<1>4. Harmless(c)'
  BY <1>0, <1>6, <1>8, <1>9, Standing DEF Harmless, Core, Target5, Before, Others, Level, SignalOp
<1>5. Shown' => Shown \/ engaged'
  OBVIOUS
<1> QED BY <1>1, <1>2, <1>3, <1>4, <1>5, GuardsKept DEF Guarded

-----------------------------------------------------------------------------
(***************************************************************************)
(* Each action of NetworkGuard.                                            *)
(***************************************************************************)

LEMMA RootGuards ==
  ASSUME IInv, Guards, NEW c \in Caller, NftAsRoot(c)
  PROVE  Guards'
<1>0. /\ Others(c, "root") /\ OtherCallers(c) /\ Core(run'[c]["root"], run[c]["root"])
      /\ run'[c]["root"].at = "done" /\ run'[c]["root"].outcome = "ok" /\ run[c]["root"].at = "nft"
      /\ \A d \in Caller \ {c} : acted'[d] = acted[d]
      /\ run'[c]["user"] = run[c]["user"] /\ UNCHANGED <<conns, opened, setting>>
      /\ (engaged => engaged') /\ (run[c]["root"].op = "apply" => engaged')
  BY EndsRun, Standing, OthersAll, Dotted DEF NftAsRoot, Nft, At, Level, Others
<1>6. run[c]["root"].op \in RulesetOp
  BY <1>0, Standing DEF Placed
<1>8. /\ run[c]["user"].at \in {"await", "overdue", "idle"}
      /\ run[c]["user"].at # "idle" => run[c]["user"].op = run[c]["root"].op
  BY <1>0, Standing DEF Paired
<1>1. Elsewhere(c)
  BY <1>0, Standing DEF Elsewhere
<1>2. Engagement(c)'
  BY <1>0, <1>6, <1>8, Standing DEF Engagement, Core, Target5, Before, RulesetOp
<1>3. Severance(c)'
  BY <1>0, <1>6, <1>8, Standing DEF Severance, Core, Target5, Before, RulesetOp
<1>4. Harmless(c)'
  BY <1>0, <1>6, <1>8, Standing DEF Harmless, Core, Target5, Before, RulesetOp
<1>5. Shown' => Shown \/ engaged'
  BY DEF NftAsRoot, Shown
<1> QED BY <1>1, <1>2, <1>3, <1>4, <1>5, GuardsKept DEF Guarded

LEMMA MarkerGuards ==
  ASSUME IInv, Guards, NEW c \in Caller, Mark(c) \/ WriteMarker(c) \/ Unmark(c)
  PROVE  Guards'
<1>6. PICK x : /\ Goes(c, "user", x) /\ x \in {"write", "done"}
               /\ x = "write" => run[c]["user"].at = "mark"
  BY Dotted DEF Mark, WriteMarker, Unmark, Leaves, At
<1>0. /\ Others(c, "user") /\ OtherCallers(c) /\ run'[c]["user"].at = x
      /\ Core(run'[c]["user"], run[c]["user"]) /\ run'[c]["user"].outcome = run[c]["user"].outcome
      /\ UNCHANGED <<acted, engaged, conns, opened, setting>> /\ run'[c]["root"] = run[c]["root"]
      /\ run[c]["user"].at \in {"mark", "write", "unmark"}
  BY <1>6, GoesRun, Standing, OthersAll, Dotted DEF Mark, WriteMarker, Unmark, Leaves, At, Level, Others
<1>7. run[c]["user"].op \in {"apply", "clear"}
  BY <1>0, Standing DEF Placed
<1>8. boot # None /\ boot # Torn
  BY NetworkAssumption DEF IInv, World, Network
<1>1. Elsewhere(c)
  BY <1>0, NothingElse
<1>2. Engagement(c)'
  BY <1>0, <1>6, <1>7, Standing DEF Engagement, Core, Target5, Before
<1>3. Severance(c)'
  BY <1>0, <1>6, <1>7, Standing DEF Severance, Core, Target5, Before
<1>4. Harmless(c)'
  BY <1>0, <1>6, <1>7, Standing DEF Harmless, Core, Target5, Before
<1>5. Shown' => Shown \/ engaged'
  BY <1>0, <1>8, Standing, Dotted DEF Shown, Mark, WriteMarker, Unmark, Leaves, At, Engagement
<1> QED BY <1>1, <1>2, <1>3, <1>4, <1>5, GuardsKept DEF Guarded

LEMMA KillGuards ==
  ASSUME IInv, Guards, NEW c \in Caller, NEW l \in Level, Kill(c, l)
  PROVE  Guards'
<1>6. PICK x : /\ x \in {"done", "recount"} /\ run'[c][l].at = x /\ Core(run'[c][l], run[c][l])
               /\ Others(c, l) /\ OtherCallers(c)
               /\ x = "done" => l = "root" /\ setting.route = "legacy"
  BY GoesRun, EndsRun, Standing, OthersAll DEF Kill
<1>0. /\ run[c][l].at = "kill" /\ UNCHANGED <<acted, engaged, opened, boot, marker, setting>>
      /\ conns' \subseteq conns /\ setting' = setting
  BY DEF Kill, At
<1>7. run[c][l].op = "sever"
  BY <1>0, Standing DEF Placed, Level
<1>1. Elsewhere(c)
  BY <1>0, <1>6, Standing DEF Elsewhere
<1>2. Engagement(c)'
  BY <1>0, <1>6, <1>7, Standing DEF Engagement, Core, Target5, Before, Others, Level
<1>3. Severance(c)'
  BY <1>0, <1>6, <1>7, Standing DEF Severance, Core, Target5, Before, Others, Level
<1>4. Harmless(c)'
  BY <1>0, <1>6, <1>7, Standing DEF Harmless, Core, Target5, Before, Others, Level
<1>5. Shown' => Shown \/ engaged'
  BY <1>0 DEF Shown
<1> QED BY <1>1, <1>2, <1>3, <1>4, <1>5, GuardsKept DEF Guarded

LEMMA EnvGuards ==
  ASSUME IInv, Guards, UNCHANGED <<run, acted, engaged, setting>>, Shown' => Shown, opened \in Nat,
         opened' \in Nat,
         opened <= opened', conns' \subseteq 1..opened', conns' \cap 1..opened \subseteq conns
  PROVE  Guards'
<1>1. ASSUME NEW c \in Caller PROVE Guarded(c)'
  <2>1. Engagement(c)'
    BY Standing DEF Engagement
  <2>2. Severance(c)'
    BY Standing DEF Severance
  <2>3. Harmless(c)'
    BY Standing DEF Harmless
  <2> QED BY <2>1, <2>2, <2>3 DEF Guarded
<1> QED BY <1>1 DEF Guards

LEMMA RebootGuards == ASSUME IInv, RebootAll PROVE Guards'
<1>1. marker \in {None, Torn} \cup 1..boot /\ boot \in Nat
  BY SettingAssumption DEF IInv, World, Stage, Network, SettingType
<1>2. ~Shown'
  BY <1>1, NetworkAssumption DEF RebootAll, Reboot, Shown
<1>3. conns' = {} /\ \A c \in Caller : ~acted'[c]
  BY DEF RebootAll, Reboot
<1>4. ASSUME NEW c \in Caller PROVE Guarded(c)'
  BY <1>3, RebootRun, IdleFields DEF Guarded, Engagement, Severance, Harmless, Level
<1> QED BY <1>2, <1>3, <1>4 DEF Guards

LEMMA SignalGuards ==
  ASSUME IInv, Guards, NEW c \in Caller, NEW l \in Level, UNCHANGED netVars,
         Check(c, l) \/ Pin(c, l) \/ Send(c, l) \/ GraceStep(c, l)
  PROVE  Guards'
<1>0. Shown' = Shown /\ UNCHANGED <<engaged, conns, opened, setting>>
  BY DEF netVars, Shown, Check, Pin, Send, GraceStep
<1>1. CASE Check(c, l)
  BY <1>0, <1>1, GoesGuards, EndsGuards DEF Check, At, Before
<1>2. CASE Pin(c, l)
  <2>1. CASE Ends(c, l, "failed")
    BY <1>0, <1>2, <2>1, EndsGuards DEF Pin, At, Before
  <2> QED BY <1>2, <2>1, PinGuards
<1>3. CASE Send(c, l)
  <2>1. run[c][l].at = "send"
    BY <1>3 DEF Send, At
  <2>2. CASE Ends(c, l, "failed") /\ UNCHANGED acted
    BY <1>0, <2>1, <2>2, EndsGuards DEF Before
  <2>3. CASE Escalates(c, l) /\ UNCHANGED acted
    BY <1>0, <2>1, <2>3, EscalatesGuards DEF Before
  <2>4. CASE /\ run' = [run EXCEPT ![c][l].at = AfterSignal(run[c][l].op, l), ![c][l].outcome = "ok"]
             /\ acted' = [acted EXCEPT ![c] = TRUE]
    BY <1>0, <2>1, <2>4, SentGuards
  <2> QED BY <1>3, <2>2, <2>3, <2>4 DEF Send, Delivered
<1>4. CASE GraceStep(c, l)
  <2>1. run[c][l].at = "grace" /\ run[c][l].op \in SignalOp
    BY <1>4, Standing, ArgIsPid DEF GraceStep, At, Signalling
  <2>2. CASE Ends(c, l, "ok") /\ UNCHANGED acted
    BY <1>0, <2>1, <2>2, EndsGuards DEF SignalOp
  <2>3. CASE run' = [run EXCEPT ![c][l].tries = @ + 1] /\ UNCHANGED acted
    BY <1>0, <2>3, TriedGuards
  <2>4. CASE Ends(c, l, "ok") /\ acted' = [acted EXCEPT ![c] = TRUE]
    BY <1>0, <2>1, <2>4, KilledGuards
  <2> QED BY <1>4, <2>2, <2>3, <2>4 DEF GraceStep, Delivered
<1> QED BY <1>1, <1>2, <1>3, <1>4

LEMMA SeverGuards ==
  ASSUME IInv, Guards, NEW c \in Caller, NEW l \in Level, Count(c, l) \/ Recount(c, l)
  PROVE  Guards'
<1>0. Shown' = Shown /\ UNCHANGED <<engaged, conns, opened, acted, setting>>
  BY DEF netVars, Shown, Count, Recount
<1>1. CASE Count(c, l)
  <2>1. CASE Ends(c, l, "failed")
    BY <1>0, <1>1, <2>1, EndsGuards DEF Count, At, Before
  <2> QED BY <1>1, <2>1, CountGuards
<1>2. CASE Recount(c, l)
  <2>1. run[c][l].at = "recount" /\ run[c][l].op = "sever"
    BY <1>2, Standing DEF Recount, At, Placed, Level
  <2>2. CASE Ends(c, l, "ok") /\ conns = {}
    BY <1>0, <2>1, <2>2, EndsGuards
  <2>3. CASE Ends(c, l, "failed")
    BY <1>0, <2>1, <2>3, EndsGuards DEF Before
  <2>4. CASE Escalates(c, l)
    BY <1>0, <2>1, <2>4, EscalatesGuards DEF Before
  <2> QED BY <1>2, <2>2, <2>3, <2>4 DEF Recount, NoneRemain
<1> QED BY <1>1, <1>2

-----------------------------------------------------------------------------
(***************************************************************************)
(* Every step keeps Guards; the first theorems.                            *)
(***************************************************************************)

LEMMA GuardsStep == ASSUME IInv, Guards, [Next]_vars PROVE Guards'
<1>0. opened \in Nat /\ conns \subseteq 1..opened
  BY DEF IInv, World, Network, Guards
<1>1. ASSUME EscNext, UNCHANGED netVars PROVE Guards'
  BY <1>1, RequestGuards, ApproveGuards, DenyGuards, ReturnGuards, TimeOutGuards, CrashGuards
     DEF EscNext
<1>2. ASSUME UNCHANGED <<run, acted, setting>>, UNCHANGED netVars PROVE Guards'
  BY <1>0, <1>2, EnvGuards DEF netVars, Shown
<1>3. ASSUME ProcNext, UNCHANGED netVars PROVE Guards'
  <2>1. ProcEnv => UNCHANGED <<run, acted, setting>>
    BY DEF ProcEnv, Exit, Spawn, Exec, Becomes, escVars
  <2> QED BY <1>2, <1>3, <2>1, OpenGuards, SignalGuards, CaptureGuards DEF ProcNext
<1>4. ASSUME NEW c \in Caller, NftAsUser(c) \/ NftFails(c) PROVE Guards'
  <2>1. Shown' = Shown /\ UNCHANGED <<engaged, conns, opened, acted, setting>>
    BY <1>4 DEF netVars, Shown, NftAsUser, NftFails
  <2> QED BY <1>4, <2>1, EscalatesGuards DEF NftAsUser, NftFails, At, Before, Level
<1>5. ASSUME OpenConn \/ (\E k \in conns : CloseConn(k)) \/ Flush PROVE Guards'
  <2>1. CASE OpenConn
    BY <1>0, <2>1, EnvGuards DEF OpenConn, escVars, Shown
  <2>2. CASE \E k \in conns : CloseConn(k)
    BY <1>0, <2>2, EnvGuards DEF CloseConn, escVars, Shown
  <2>3. CASE Flush
    BY <1>0, <2>3, EnvGuards DEF Flush, escVars, Shown
  <2> QED BY <1>5, <2>1, <2>2, <2>3
<1>6. ASSUME NetNext PROVE Guards'
  BY <1>4, <1>5, <1>6, RootGuards, MarkerGuards, KillGuards, SeverGuards DEF NetNext
<1> QED BY <1>1, <1>2, <1>3, <1>6, RebootGuards DEF Next, vars, escVars

LEMMA InitGuards == ASSUME Init PROVE Guards
<1>1. marker = None /\ boot = 1 /\ conns = 1..setting.conns /\ opened = setting.conns
  BY DEF Init, NetInit
<1>2. \A c \in Caller : ~acted[c]
  BY DEF Init, EscInit
<1>3. \A c \in Caller, l \in Level : run[c][l] = Idle
  <2>1. run = [c \in Caller |-> [user |-> Idle, root |-> Idle]]
    BY DEF Init, EscInit
  <2>2. run \in Runs
    BY <2>1, IdleType, SMT DEF Runs, Level
  <2> QED BY <2>1, <2>2, SMT DEF Runs, Level
<1>4. ~Shown
  BY <1>1, NetworkAssumption DEF Shown
<1> QED BY <1>1, <1>2, <1>3, <1>4, IdleFields DEF Guards, Guarded, Engagement, Severance, Harmless,
   Level

\* The invariant holds in every state.
THEOREM GuardsHold == Spec => []Guards
<1>1. Init => IInv /\ Guards
  BY InitIInv, InitGuards
<1>2. IInv /\ [Next]_vars => IInv'
  BY NextShaped, StageStep, PopulationStep, NetworkStep DEF IInv, World
<1>3. IInv /\ Guards /\ [Next]_vars => Guards'
  BY GuardsStep
<1> QED BY <1>1, <1>2, <1>3, PTL DEF Spec

\* kernel_network_blackout_state shows no blackout that no helper has
\* engaged, whatever crashes, times out or comes back late in between.
THEOREM ShownGuarded == Spec => []ShownWasEngaged
<1>1. Guards => ShownWasEngaged
  BY DEF Guards, ShownWasEngaged
<1> QED BY <1>1, GuardsHold, PTL

\* kernel_sever_socket reports success only if nothing it had counted before
\* the kill is connected any more.
THEOREM SeveredGuarded == Spec => []SeveredAreGone
<1>1. IInv /\ Guards => SeveredAreGone
  BY Dotted DEF Guards, Guarded, Severance, SeveredAreGone, Over
<1> QED BY <1>1, Inductive, GuardsHold, PTL

\* A command that reports failure or a cancelled prompt has changed nothing:
\* neither it nor its helper has signalled, killed or committed anything.
THEOREM FailedGuarded == Spec => []FailedIsHarmless
<1>1. IInv /\ Guards => FailedIsHarmless
  BY Dotted DEF Guards, Guarded, Harmless, FailedIsHarmless, Over
<1> QED BY <1>1, Inductive, GuardsHold, PTL

-----------------------------------------------------------------------------
(***************************************************************************)
(* The agreement of marker and ruleset.                                    *)
(***************************************************************************)

\* A blackout that is there and not recorded yet; one that is gone and still is.
Applied(c) ==
  LET u == run[c]["user"]
      h == run[c]["root"] IN
  \/ h.at = "done" /\ h.op = "apply" /\ h.outcome = "ok"
  \/ u.at \in {"mark", "write"}

Cleared(c) ==
  LET u == run[c]["user"]
      h == run[c]["root"] IN
  \/ h.at = "done" /\ h.op = "clear" /\ h.outcome = "ok"
  \/ u.at = "unmark"

\* Where one blackout is between the ruleset and its marker.
Truth ==
  smooth /\ ~flushed =>
    /\ \A c, d \in Caller : ~Quiet(c) /\ ~Quiet(d) => c = d
    /\ \A c \in Caller : run[c]["root"].at # "idle" => run[c]["user"].at = "await"
    /\ \A c \in Caller : (Applied(c) => table) /\ (Cleared(c) => ~table)
    /\ (\A c \in Caller : ~Applied(c) /\ ~Cleared(c)) /\ ~astray => (Shown <=> table)

LEMMA QuietMeans ==
  ASSUME IInv, NEW c \in Caller
  PROVE  /\ Quiet(c) <=> run[c]["user"].at \in {"idle", "done"} /\ run[c]["root"].at = "idle"
         /\ Quiet(c) => ~Applied(c) /\ ~Cleared(c)
  BY Dotted DEF Quiet, Applied, Cleared

\* One caller moves, within the phase it is in.
LEMMA TruthKept ==
  ASSUME IInv, IInv', Truth, NEW c \in Caller, OtherCallers(c), ~Quiet(c), smooth' => smooth,
         UNCHANGED <<table, flushed>>, Shown' = Shown /\ astray' = astray,
         Applied(c)' <=> Applied(c), Cleared(c)' <=> Cleared(c),
         smooth /\ ~flushed /\ run'[c]["root"].at # "idle" => run'[c]["user"].at = "await"
  PROVE  Truth'
<1> SUFFICES ASSUME smooth, ~flushed
             PROVE  /\ \A d, e \in Caller : ~Quiet(d)' /\ ~Quiet(e)' => d = e
                    /\ \A d \in Caller : run'[d]["root"].at # "idle" => run'[d]["user"].at = "await"
                    /\ \A d \in Caller : (Applied(d)' => table') /\ (Cleared(d)' => ~table')
                    /\ (\A d \in Caller : ~Applied(d)' /\ ~Cleared(d)') /\ ~astray' => (Shown' <=> table')
  BY DEF Truth
<1>1. \A d \in Caller \ {c} : Quiet(d) /\ ~Applied(d) /\ ~Cleared(d)
  BY QuietMeans DEF Truth
<1>2. \A d \in Caller \ {c} : run'[d]["user"] = run[d]["user"] /\ run'[d]["root"] = run[d]["root"]
  BY DEF OtherCallers, Level
<1>3. ASSUME NEW d \in Caller \ {c} PROVE Quiet(d)' /\ ~Applied(d)' /\ ~Cleared(d)'
  <2>1. run'[d]["user"].at \in {"idle", "done"} /\ run'[d]["root"].at = "idle"
    BY <1>1, <1>2, QuietMeans
  <2>2. run'[d].user = run'[d]["user"] /\ run'[d].root = run'[d]["root"]
    BY SMT DEF IInv, Shaped, Runs, Level
  <2> QED BY <2>1, <2>2 DEF Quiet, Applied, Cleared
<1>4. \A d, e \in Caller : ~Quiet(d)' /\ ~Quiet(e)' => d = e
  BY <1>3
<1>5. \A d \in Caller : run'[d]["root"].at # "idle" => run'[d]["user"].at = "await"
  BY <1>2 DEF Truth
<1>6. \A d \in Caller : (Applied(d)' => table') /\ (Cleared(d)' => ~table')
  BY <1>3 DEF Truth
<1>7. (\A d \in Caller : ~Applied(d)' /\ ~Cleared(d)') /\ ~astray' => (Shown' <=> table')
  BY <1>1 DEF Truth
<1> QED BY <1>4, <1>5, <1>6, <1>7

LEMMA ApproveTruth ==
  ASSUME IInv, IInv', Truth, NEW c \in Caller, Approve(c), UNCHANGED netVars
  PROVE  Truth'
<1>6. PICK x : /\ Goes(c, "root", x) /\ x \in {"open", "nft", "count", "kill"}
               /\ run[c]["root"].at = "prompt"
  BY Dotted DEF Approve, FirstStep, At
<1>0. /\ Others(c, "root") /\ OtherCallers(c) /\ run'[c]["root"].at = x
      /\ run[c]["root"].at = "prompt"
      /\ UNCHANGED <<smooth, table, flushed>> /\ Shown' = Shown /\ astray' = astray /\ run'[c]["user"] = run[c]["user"]
  BY <1>6, GoesRun, OthersAll DEF IInv, Approve, netVars, Shown, Level, Others
<1>1. ~Quiet(c)
  BY <1>0, QuietMeans DEF Level
<1>2. Applied(c)' <=> Applied(c)
  BY <1>0, <1>6 DEF Applied
<1>3. Cleared(c)' <=> Cleared(c)
  BY <1>0, <1>6 DEF Cleared
<1>4. smooth /\ ~flushed /\ run'[c]["root"].at # "idle" => run'[c]["user"].at = "await"
  BY <1>0, <1>6 DEF Truth
<1> QED BY <1>0, <1>1, <1>2, <1>3, <1>4, TruthKept

LEMMA DenyTruth ==
  ASSUME IInv, IInv', Truth, NEW c \in Caller, Deny(c), UNCHANGED netVars
  PROVE  Truth'
<1>0. /\ OtherCallers(c) /\ run[c]["root"].at = "prompt" /\ run'[c]["root"] = Idle
      /\ UNCHANGED <<smooth, table, flushed>> /\ Shown' = Shown /\ astray' = astray
      /\ run'[c]["user"] = run[c]["user"] \/ run'[c]["user"].at = "done"
      /\ run[c]["user"].at \in {"await", "overdue", "idle"}
  BY DenyRun, Dotted DEF IInv, Shaped, Paired, Deny, At, netVars, Answered, Shown
<1>1. ~Quiet(c)
  BY <1>0, QuietMeans DEF Level
<1>2. Applied(c)' <=> Applied(c)
  BY <1>0, IdleFields DEF Applied
<1>3. Cleared(c)' <=> Cleared(c)
  BY <1>0, IdleFields DEF Cleared
<1>4. smooth /\ ~flushed /\ run'[c]["root"].at # "idle" => run'[c]["user"].at = "await"
  BY <1>0, IdleFields DEF Truth
<1> QED BY <1>0, <1>1, <1>2, <1>3, <1>4, TruthKept

LEMMA ReturnTruth ==
  ASSUME IInv, IInv', Truth, NEW c \in Caller, Return(c), UNCHANGED netVars, smooth, ~flushed
  PROVE  Truth'
<1>0. /\ OtherCallers(c) /\ run[c]["root"].at = "done" /\ run'[c]["root"] = Idle
      /\ UNCHANGED <<smooth, table, flushed>> /\ Shown' = Shown /\ astray' = astray
  BY ReturnRun DEF Return, netVars, Answered, Shown
<1>6. /\ run[c]["user"].at = "await" /\ run[c]["user"].op = run[c]["root"].op
      /\ run'[c]["user"].at = AfterHelper(run[c]["user"], run[c]["root"].outcome)
  BY <1>0, ReturnRun, Dotted DEF Truth, IInv, Shaped, Paired
<1>1. ~Quiet(c)
  BY <1>0, QuietMeans DEF Level
<1>2. Applied(c)' <=> Applied(c)
  BY <1>0, <1>6, IdleFields DEF Applied, AfterHelper
<1>3. Cleared(c)' <=> Cleared(c)
  BY <1>0, <1>6, IdleFields DEF Cleared, AfterHelper
<1>4. smooth /\ ~flushed /\ run'[c]["root"].at # "idle" => run'[c]["user"].at = "await"
  BY <1>0, <1>6, IdleFields DEF Truth, AfterHelper
<1> QED BY <1>0, <1>1, <1>2, <1>3, <1>4, TruthKept

LEMMA GoesTruth ==
  ASSUME IInv, IInv', Truth, NEW c \in Caller, NEW l \in Level, NEW x, Goes(c, l, x),
         UNCHANGED <<smooth, table, flushed>>, Shown' = Shown /\ astray' = astray,
         run[c][l].at \notin {"idle", "prompt", "await", "done", "mark", "write", "unmark"},
         x \notin {"idle", "done", "mark", "write", "unmark"}
  PROVE  Truth'
<1>0. /\ Others(c, l) /\ OtherCallers(c) /\ run'[c][l].at = x
      /\ run[c][l].at \notin {"idle", "await", "done", "mark", "write", "unmark"}
  BY GoesRun, OthersAll DEF IInv
<1>6. l = "user" => run[c]["root"].at = "idle" \/ run[c]["user"].at = "overdue"
  BY <1>0, Dotted DEF IInv, Shaped, Paired
<1>1. ~Quiet(c)
  BY <1>0, QuietMeans DEF Level
<1>2. Applied(c)' <=> Applied(c)
  BY <1>0, <1>6 DEF Applied, Others, Level
<1>3. Cleared(c)' <=> Cleared(c)
  BY <1>0, <1>6 DEF Cleared, Others, Level
<1>4. smooth /\ ~flushed /\ run'[c]["root"].at # "idle" => run'[c]["user"].at = "await"
  BY <1>0, <1>6 DEF Truth, Others, Level
<1> QED BY <1>0, <1>1, <1>2, <1>3, <1>4, TruthKept

LEMMA EndsTruth ==
  ASSUME IInv, IInv', Truth, NEW c \in Caller, NEW l \in Level, NEW o, Ends(c, l, o),
         UNCHANGED <<smooth, table, flushed>>, Shown' = Shown /\ astray' = astray,
         run[c][l].at \notin {"idle", "prompt", "await", "overdue", "done", "mark", "write",
         "unmark"},
         o = "ok" /\ l = "root" => run[c][l].op \notin {"apply", "clear"}
  PROVE  Truth'
<1>0. /\ Others(c, l) /\ OtherCallers(c) /\ run'[c][l].at = "done" /\ run'[c][l].outcome = o
      /\ run'[c][l].op = run[c][l].op
      /\ run[c][l].at \notin {"idle", "await", "done", "mark", "write", "unmark"}
  BY EndsRun, OthersAll DEF IInv, Core, Target5
<1>6. l = "user" => run[c]["root"].at = "idle"
  BY <1>0, Dotted DEF IInv, Shaped, Paired
<1>1. ~Quiet(c)
  BY <1>0, QuietMeans DEF Level
<1>2. Applied(c)' <=> Applied(c)
  BY <1>0, <1>6 DEF Applied, Others, Level
<1>3. Cleared(c)' <=> Cleared(c)
  BY <1>0, <1>6 DEF Cleared, Others, Level
<1>4. smooth /\ ~flushed /\ run'[c]["root"].at # "idle" => run'[c]["user"].at = "await"
  BY <1>0, <1>6 DEF Truth, Others, Level
<1> QED BY <1>0, <1>1, <1>2, <1>3, <1>4, TruthKept

LEMMA EscalatesTruth ==
  ASSUME IInv, IInv', Truth, NEW c \in Caller, NEW l \in Level, Escalates(c, l),
         UNCHANGED <<smooth, table, flushed>>, Shown' = Shown /\ astray' = astray,
         run[c][l].at \in {"send", "nft", "recount"}
  PROVE  Truth'
<1>1. CASE Ends(c, l, "failed")
  BY <1>1, EndsTruth
<1>2. CASE l = "user" /\ Waits(c)
  <2>1. /\ OtherCallers(c) /\ run'[c]["user"].at = "await" /\ run'[c]["root"].at = "prompt"
        /\ run[c]["user"].at \in {"send", "nft", "recount"}
    BY <1>2 DEF Waits, Fresh
  <2>2. run[c]["root"].at = "idle"
    BY <2>1, Dotted DEF IInv, Shaped, Paired
  <2>3. ~Quiet(c)
    BY <2>1, QuietMeans
  <2>4. (Applied(c)' <=> Applied(c)) /\ (Cleared(c)' <=> Cleared(c))
    BY <2>1, <2>2 DEF Applied, Cleared
  <2> QED BY <2>1, <2>3, <2>4, TruthKept
<1> QED BY <1>1, <1>2, EscalatesRun DEF IInv

LEMMA OpenTruth ==
  ASSUME IInv, IInv', Truth, NEW c \in Caller, NEW l \in Level, Open(c, l) \/ (Pin(c,
         l) /\ ~Ends(c, l, "failed")), UNCHANGED netVars
  PROVE  Truth'
<1>0. /\ Others(c, l) /\ OtherCallers(c) /\ run[c][l].at \in {"open", "pin"}
      /\ run'[c][l].at \in {"check", "send"}
      /\ UNCHANGED <<smooth, table, flushed>> /\ Shown' = Shown /\ astray' = astray
  BY OpenRun, PinRun, OthersAll DEF IInv, Open, Pin, At, netVars, Shown
<1>6. l = "user" => run[c]["root"].at = "idle"
  BY <1>0, Dotted DEF IInv, Shaped, Paired
<1>1. ~Quiet(c)
  BY <1>0, QuietMeans DEF Level
<1>2. Applied(c)' <=> Applied(c)
  BY <1>0, <1>6 DEF Applied, Others, Level
<1>3. Cleared(c)' <=> Cleared(c)
  BY <1>0, <1>6 DEF Cleared, Others, Level
<1>4. smooth /\ ~flushed /\ run'[c]["root"].at # "idle" => run'[c]["user"].at = "await"
  BY <1>0, <1>6 DEF Truth, Others, Level
<1> QED BY <1>0, <1>1, <1>2, <1>3, <1>4, TruthKept

LEMMA CountTruth ==
  ASSUME IInv, IInv', Truth, NEW c \in Caller, NEW l \in Level, Count(c, l), ~Ends(c, l, "failed")
  PROVE  Truth'
<1>0. /\ Others(c, l) /\ OtherCallers(c) /\ run[c][l].at = "count" /\ run'[c][l].at = "kill"
      /\ UNCHANGED <<smooth, table, flushed>> /\ Shown' = Shown /\ astray' = astray
  BY CountRun, OthersAll DEF IInv, Count, At, netVars, Shown
<1>6. l = "user" => run[c]["root"].at = "idle"
  BY <1>0, Dotted DEF IInv, Shaped, Paired
<1>1. ~Quiet(c)
  BY <1>0, QuietMeans DEF Level
<1>2. Applied(c)' <=> Applied(c)
  BY <1>0, <1>6 DEF Applied, Others, Level
<1>3. Cleared(c)' <=> Cleared(c)
  BY <1>0, <1>6 DEF Cleared, Others, Level
<1>4. smooth /\ ~flushed /\ run'[c]["root"].at # "idle" => run'[c]["user"].at = "await"
  BY <1>0, <1>6 DEF Truth, Others, Level
<1> QED BY <1>0, <1>1, <1>2, <1>3, <1>4, TruthKept

LEMMA CaptureTruth ==
  ASSUME IInv, IInv', Truth, NEW c \in Caller, Capture(c), UNCHANGED netVars
  PROVE  Truth'
<1>0. /\ Others(c, "user") /\ OtherCallers(c) /\ run[c]["user"].at = "capture"
      /\ run'[c]["user"].at = "done"
      /\ UNCHANGED <<smooth, table, flushed>> /\ Shown' = Shown /\ astray' = astray
  BY CaptureRun, OthersAll, Dotted DEF IInv, Capture, At, netVars, Shown, Level
<1>6. run[c]["root"].at = "idle"
  BY <1>0, Dotted DEF IInv, Shaped, Paired
<1>1. ~Quiet(c)
  BY <1>0, QuietMeans DEF Level
<1>2. Applied(c)' <=> Applied(c)
  BY <1>0, <1>6 DEF Applied, Others, Level
<1>3. Cleared(c)' <=> Cleared(c)
  BY <1>0, <1>6 DEF Cleared, Others, Level
<1>4. smooth /\ ~flushed /\ run'[c]["root"].at # "idle" => run'[c]["user"].at = "await"
  BY <1>0, <1>6 DEF Truth, Others, Level
<1> QED BY <1>0, <1>1, <1>2, <1>3, <1>4, TruthKept

LEMMA SentTruth ==
  ASSUME IInv, IInv', Truth, NEW c \in Caller, NEW l \in Level, UNCHANGED <<smooth, table,
         flushed>>, Shown' = Shown /\ astray' = astray, run[c][l].at \in {"send", "grace"},
         \/ run' = [run EXCEPT ![c][l].at = AfterSignal(run[c][l].op, l), ![c][l].outcome = "ok"]
         \/ run' = [run EXCEPT ![c][l].tries = @ + 1]
  PROVE  Truth'
<1>0. /\ Others(c, l) /\ OtherCallers(c) /\ run[c][l].at \in {"send", "grace"}
      /\ run'[c][l].at \in {"send", "grace", "capture", "done"} /\ run'[c][l].op = run[c][l].op
  BY SentRun, TriedRun, OthersAll DEF IInv, AfterSignal, Core, Target5
<1>5. run[c][l].op \notin {"apply", "clear"}
  BY ArgIsPid DEF IInv, Signalling, SignalOp
<1>6. l = "user" => run[c]["root"].at = "idle"
  BY <1>0, Dotted DEF IInv, Shaped, Paired
<1>1. ~Quiet(c)
  BY <1>0, QuietMeans DEF Level
<1>2. Applied(c)' <=> Applied(c)
  BY <1>0, <1>5, <1>6 DEF Applied, Others, Level
<1>3. Cleared(c)' <=> Cleared(c)
  BY <1>0, <1>5, <1>6 DEF Cleared, Others, Level
<1>4. smooth /\ ~flushed /\ run'[c]["root"].at # "idle" => run'[c]["user"].at = "await"
  BY <1>0, <1>5, <1>6 DEF Truth, Others, Level
<1> QED BY <1>0, <1>1, <1>2, <1>3, <1>4, TruthKept

LEMMA KillTruth ==
  ASSUME IInv, IInv', Truth, NEW c \in Caller, NEW l \in Level, Kill(c, l)
  PROVE  Truth'
<1>0. /\ Others(c, l) /\ OtherCallers(c) /\ run[c][l].at = "kill"
      /\ run'[c][l].at \in {"done", "recount"}
      /\ run'[c][l].op = run[c][l].op /\ run[c][l].op = "sever" /\ (l = "user" => run'[c][l].at = "recount")
      /\ UNCHANGED <<smooth, table, flushed>> /\ Shown' = Shown /\ astray' = astray
  BY GoesRun, EndsRun, OthersAll DEF IInv, Shaped, Placed, Kill, At, Shown, Core, Target5
<1>6. l = "user" => run[c]["root"].at = "idle"
  BY <1>0, Dotted DEF IInv, Shaped, Paired
<1>1. ~Quiet(c)
  BY <1>0, QuietMeans DEF Level
<1>2. Applied(c)' <=> Applied(c)
  BY <1>0, <1>6 DEF Applied, Others, Level
<1>3. Cleared(c)' <=> Cleared(c)
  BY <1>0, <1>6 DEF Cleared, Others, Level
<1>4. smooth /\ ~flushed /\ run'[c]["root"].at # "idle" => run'[c]["user"].at = "await"
  BY <1>0, <1>6 DEF Truth, Others, Level
<1> QED BY <1>0, <1>1, <1>2, <1>3, <1>4, TruthKept

\* The others are quiet, and c is the one that may not be.
LEMMA TruthAlone ==
  ASSUME IInv', NEW c \in Caller,
         smooth' /\ ~flushed' =>
           /\ \A d \in Caller \ {c} : run'[d]["user"].at \in {"idle", "done"} /\ run'[d]["root"].at = "idle"
           /\ run'[c]["root"].at # "idle" => run'[c]["user"].at = "await"
           /\ (Applied(c)' => table') /\ (Cleared(c)' => ~table')
           /\ ~Applied(c)' /\ ~Cleared(c)' /\ ~astray' => (Shown' <=> table')
  PROVE  Truth'
<1> SUFFICES ASSUME smooth', ~flushed'
             PROVE  /\ \A d, e \in Caller : ~Quiet(d)' /\ ~Quiet(e)' => d = e
                    /\ \A d \in Caller : run'[d]["root"].at # "idle" => run'[d]["user"].at = "await"
                    /\ \A d \in Caller : (Applied(d)' => table') /\ (Cleared(d)' => ~table')
                    /\ (\A d \in Caller : ~Applied(d)' /\ ~Cleared(d)') /\ ~astray' => (Shown' <=> table')
  BY DEF Truth
<1>1. ASSUME NEW d \in Caller \ {c} PROVE Quiet(d)' /\ ~Applied(d)' /\ ~Cleared(d)'
  <2>1. run'[d].user = run'[d]["user"] /\ run'[d].root = run'[d]["root"]
    BY SMT DEF IInv, Shaped, Runs, Level
  <2> QED BY <2>1 DEF Quiet, Applied, Cleared
<1> QED BY <1>1

LEMMA RequestTruth ==
  ASSUME IInv, IInv', Truth, NEW c \in Caller, NEW job \in setting.jobs, Request(c, job),
         UNCHANGED netVars
  PROVE  Truth'
<1>1. /\ OtherCallers(c) /\ run'[c]["root"] = Idle
      /\ run'[c]["user"].at \in {"open", "count", "nft"}
      /\ UNCHANGED <<table, flushed>> /\ Shown' = Shown /\ astray' = astray
  BY RequestRun DEF Fresh, FirstStep, netVars, Shown
<1>2. ~Applied(c)' /\ ~Cleared(c)'
  BY <1>1, IdleFields DEF Applied, Cleared
<1>3. Quiet(c) /\ (smooth' => smooth /\ \A d \in Caller \ {c} : Quiet(d))
  BY DEF Request
<1>4. smooth' => \A d \in Caller : ~Applied(d) /\ ~Cleared(d)
  BY <1>3, QuietMeans
<1>5. smooth' /\ ~flushed /\ ~astray => (Shown <=> table)
  BY <1>3, <1>4 DEF Truth
<1>6. smooth' => \A d \in Caller \ {c} : /\ run'[d]["user"].at \in {"idle", "done"}
                                         /\ run'[d]["root"].at = "idle"
  BY <1>1, <1>3, QuietMeans DEF OtherCallers, Level
<1> QED BY <1>1, <1>2, <1>5, <1>6, IdleFields, TruthAlone

LEMMA BusyAlone ==
  ASSUME IInv, Truth, smooth, ~flushed, NEW c \in Caller, ~Quiet(c), OtherCallers(c)
  PROVE  \A d \in Caller \ {c} : run'[d]["user"].at \in {"idle",
         "done"} /\ run'[d]["root"].at = "idle"
<1>1. \A d \in Caller \ {c} : Quiet(d)
  BY DEF Truth
<1> QED BY <1>1, QuietMeans DEF OtherCallers, Level

LEMMA RootTruth == ASSUME IInv, IInv', Truth, NEW c \in Caller, NftAsRoot(c) PROVE Truth'
<1>1. /\ OtherCallers(c) /\ run[c]["root"].at = "nft" /\ run'[c]["root"].at = "done"
      /\ run'[c]["root"].outcome = "ok" /\ run'[c]["root"].op = run[c]["root"].op
      /\ run'[c]["user"] = run[c]["user"] /\ UNCHANGED <<smooth, flushed>> /\ Shown' = Shown /\ astray' = astray
  BY EndsRun, OthersAll, Dotted DEF IInv, NftAsRoot, At, Shown, Level, Others, Core, Target5
<1>2. ~Quiet(c)
  BY <1>1, QuietMeans
<1>3. run[c]["root"].op \in RulesetOp /\ run[c]["user"].at \in {"await", "overdue", "idle"}
  BY <1>1, Dotted DEF IInv, Shaped, Placed, Paired, Level
<1>4. /\ run[c]["root"].op = "apply" => table'
      /\ run[c]["root"].op = "clear" => ~table'
      /\ run[c]["root"].op = "quarantine" => table' = table
  BY Dotted DEF NftAsRoot, Nft
<1>5. ~Applied(c) /\ ~Cleared(c)
  BY <1>1, <1>3 DEF Applied, Cleared
<1>6. smooth /\ ~flushed => \A d \in Caller : ~Applied(d) /\ ~Cleared(d)
  BY <1>2, <1>5, QuietMeans DEF Truth
<1>7. smooth /\ ~flushed /\ ~astray => (Shown <=> table)
  BY <1>6 DEF Truth
<1>8. /\ Applied(c)' <=> run[c]["root"].op = "apply"
      /\ Cleared(c)' <=> run[c]["root"].op = "clear"
  BY <1>1, <1>3 DEF Applied, Cleared
<1>9. smooth /\ ~flushed => run'[c]["user"].at = "await"
  BY <1>1 DEF Truth
<1> QED BY <1>1, <1>2, <1>3, <1>4, <1>7, <1>8, <1>9, BusyAlone, TruthAlone DEF RulesetOp

LEMMA MarkerTruth ==
  ASSUME IInv, IInv', Truth, NEW c \in Caller, Mark(c) \/ WriteMarker(c) \/ Unmark(c)
  PROVE  Truth'
<1>0. PICK x : Goes(c, "user", x) /\ x \in {"write", "done"} /\ (x = "write" => Mark(c))
  BY Dotted DEF Mark, WriteMarker, Unmark, Leaves, At
<1>1. /\ OtherCallers(c) /\ run'[c]["user"].at = x /\ run'[c]["root"] = run[c]["root"]
      /\ UNCHANGED <<smooth, flushed, table>> /\ run[c]["user"].at \in {"mark", "write", "unmark"}
  BY <1>0, GoesRun, OthersAll, Dotted DEF IInv, Mark, WriteMarker, Unmark, Leaves, At, Level, Others
<1>2. ~Quiet(c) /\ run[c]["root"].at = "idle"
  BY <1>1, QuietMeans, Dotted DEF IInv, Shaped, Paired
<1>3. boot # None /\ boot # Torn
  BY NetworkAssumption DEF IInv, World, Network
<1>7. CASE astray'
  <2>1. Applied(c)' => Applied(c)
    BY <1>0, <1>1, <1>2, Dotted DEF Applied, Mark, At
  <2>2. ~Cleared(c)'
    BY <1>0, <1>1, <1>2 DEF Cleared
  <2>3. smooth /\ ~flushed /\ Applied(c) => table
    BY DEF Truth
  <2> QED BY <1>1, <1>2, <1>7, <2>1, <2>2, <2>3, BusyAlone, TruthAlone
<1>4. CASE Mark(c) /\ ~astray'
  <2>3. Goes(c, "user", "write") /\ run[c]["user"].at = "mark"
    BY <1>4, Dotted DEF Mark, Leaves, At
  <2>4. run'[c]["user"].at = "write"
    BY <2>3, GoesRun DEF IInv, Level
  <2>1. Applied(c) /\ Applied(c)' /\ ~Cleared(c)'
    BY <1>1, <1>2, <2>3, <2>4 DEF Applied, Cleared
  <2>2. smooth /\ ~flushed => table
    BY <2>1 DEF Truth
  <2> QED BY <1>1, <1>2, <2>1, <2>2, BusyAlone, TruthAlone
<1>5. CASE WriteMarker(c) /\ ~astray'
  <2>1. Applied(c) /\ ~Applied(c)' /\ ~Cleared(c)' /\ Shown'
    BY <1>0, <1>1, <1>2, <1>5, Dotted DEF Applied, Cleared, WriteMarker, Leaves, Mark, At, Shown
  <2>2. smooth /\ ~flushed => table
    BY <2>1 DEF Truth
  <2> QED BY <1>1, <1>2, <2>1, <2>2, BusyAlone, TruthAlone
<1>6. CASE Unmark(c) /\ ~astray'
  <2>1. Cleared(c) /\ ~Applied(c)' /\ ~Cleared(c)' /\ ~Shown'
    BY <1>0, <1>1, <1>2, <1>3, <1>6, Dotted DEF Applied, Cleared, Unmark, Leaves, Mark, At, Shown
  <2>2. smooth /\ ~flushed => ~table
    BY <2>1 DEF Truth
  <2> QED BY <1>1, <1>2, <2>1, <2>2, BusyAlone, TruthAlone
<1> QED BY <1>4, <1>5, <1>6, <1>7

LEMMA SettledTruth ==
  ASSUME Truth, UNCHANGED <<run, smooth, table, flushed>>, Shown' = Shown /\ astray' = astray
  PROVE  Truth'
<1>1. \A c \in Caller : Quiet(c)' = Quiet(c) /\ Applied(c)' = Applied(c) /\ Cleared(c)' = Cleared(c)
  BY DEF Quiet, Applied, Cleared
<1> QED BY <1>1 DEF Truth

LEMMA RebootTruth == ASSUME IInv, IInv', RebootAll PROVE Truth'
<1>1. marker \in {None, Torn} \cup 1..boot /\ boot \in Nat
  BY SettingAssumption DEF IInv, World, Stage, Network, SettingType
<1>2. ~Shown' /\ ~table'
  BY <1>1, NetworkAssumption DEF RebootAll, Reboot, Shown
<1>3. \A c \in Caller : run'[c]["user"] = Idle /\ run'[c]["root"] = Idle
  BY RebootRun DEF Level
<1>4. ASSUME NEW c \in Caller PROVE Quiet(c)' /\ ~Applied(c)' /\ ~Cleared(c)'
  <2>1. run'[c].user = run'[c]["user"] /\ run'[c].root = run'[c]["root"]
    BY SMT DEF IInv, Shaped, Runs, Level
  <2> QED BY <1>3, <2>1, IdleFields DEF Quiet, Applied, Cleared
<1> QED BY <1>2, <1>3, <1>4, IdleFields DEF Truth

LEMMA SignalTruth ==
  ASSUME IInv, IInv', Truth, NEW c \in Caller, NEW l \in Level, UNCHANGED netVars,
         Open(c, l) \/ Check(c, l) \/ Pin(c, l) \/ Send(c, l) \/ GraceStep(c, l)
  PROVE  Truth'
<1>0. Shown' = Shown /\ astray' = astray /\ UNCHANGED <<table, flushed>>
  BY DEF netVars, Shown
<1>1. CASE Open(c, l)
  BY <1>1, OpenTruth
<1>2. CASE Check(c, l)
  BY <1>0, <1>2, GoesTruth, EndsTruth DEF Check, At
<1>3. CASE Pin(c, l)
  <2>1. CASE Ends(c, l, "failed")
    BY <1>0, <1>3, <2>1, EndsTruth DEF Pin, At
  <2> QED BY <1>3, <2>1, OpenTruth
<1>4. CASE Send(c, l) \/ GraceStep(c, l)
  <2>1. /\ run[c][l].at \in {"send", "grace"} /\ UNCHANGED smooth
        /\ run[c][l].op \notin {"apply", "clear"}
        /\ run[c][l].at = "send" \/ GraceStep(c, l)
    BY <1>4, ArgIsPid DEF IInv, Send, GraceStep, At, Signalling, SignalOp
  <2>2. CASE Ends(c, l, "failed") \/ Ends(c, l, "ok")
    BY <1>0, <2>1, <2>2, EndsTruth
  <2>3. CASE Escalates(c, l) /\ run[c][l].at = "send"
    BY <1>0, <2>1, <2>3, EscalatesTruth
  <2>4. CASE \/ run' = [run EXCEPT ![c][l].at = AfterSignal(run[c][l].op, l), ![c][l].outcome = "ok"]
             \/ run' = [run EXCEPT ![c][l].tries = @ + 1]
    BY <1>0, <2>1, <2>4, SentTruth
  <2> QED BY <1>4, <2>1, <2>2, <2>3, <2>4 DEF Send, GraceStep, At
<1> QED BY <1>1, <1>2, <1>3, <1>4

LEMMA SeverTruth ==
  ASSUME IInv, IInv', Truth, NEW c \in Caller, NEW l \in Level, Count(c, l) \/ Recount(c, l)
  PROVE  Truth'
<1>0. Shown' = Shown /\ astray' = astray /\ UNCHANGED <<smooth, table, flushed>>
  BY DEF Count, Recount, netVars, Shown
<1>1. CASE Count(c, l)
  <2>1. CASE Ends(c, l, "failed")
    BY <1>0, <1>1, <2>1, EndsTruth DEF Count, At
  <2> QED BY <1>1, <2>1, CountTruth
<1>2. CASE Recount(c, l)
  <2>1. run[c][l].at = "recount" /\ run[c][l].op = "sever"
    BY <1>2 DEF IInv, Shaped, Placed, Recount, At
  <2> QED BY <1>0, <1>2, <2>1, EndsTruth, EscalatesTruth DEF Recount
<1> QED BY <1>1, <1>2

LEMMA TruthStep == ASSUME IInv, IInv', Truth, [Next]_vars PROVE Truth'
<1>1. ASSUME NEW c \in Caller, TimeOut(c) \/ Crash(c) PROVE Truth'
  BY <1>1 DEF TimeOut, Crash, Truth
<1>2. ASSUME NEW c \in Caller, Return(c), UNCHANGED netVars PROVE Truth'
  <2>1. smooth' = smooth /\ flushed' = flushed
    BY <1>2 DEF Return, netVars
  <2> QED BY <1>2, <2>1, ReturnTruth DEF Truth
<1>3. ASSUME EscNext, UNCHANGED netVars PROVE Truth'
  BY <1>1, <1>2, <1>3, RequestTruth, ApproveTruth, DenyTruth DEF EscNext
<1>4. ASSUME UNCHANGED <<run, smooth>>, UNCHANGED netVars PROVE Truth'
  BY <1>4, SettledTruth DEF netVars, Shown
<1>5. ASSUME ProcNext, UNCHANGED netVars PROVE Truth'
  <2>1. ProcEnv => UNCHANGED <<run, smooth>>
    BY DEF ProcEnv, Exit, Spawn, Exec, Becomes, escVars
  <2> QED BY <1>4, <1>5, <2>1, SignalTruth, CaptureTruth DEF ProcNext
<1>6. ASSUME NEW c \in Caller, NftAsUser(c) \/ NftFails(c) PROVE Truth'
  <2>1. Shown' = Shown /\ astray' = astray /\ UNCHANGED <<smooth, table, flushed>>
    BY <1>6 DEF netVars, Shown, NftAsUser, NftFails
  <2> QED BY <1>6, <2>1, EscalatesTruth DEF NftAsUser, NftFails, At, Level
<1>7. ASSUME OpenConn \/ (\E k \in conns : CloseConn(k)) \/ Flush PROVE Truth'
  <2>1. CASE Flush
    BY <2>1 DEF Flush, Truth
  <2> QED BY <1>7, <2>1, SettledTruth DEF OpenConn, CloseConn, escVars, Shown
<1>8. ASSUME NetNext PROVE Truth'
  BY <1>6, <1>7, <1>8, RootTruth, MarkerTruth, KillTruth, SeverTruth DEF NetNext
<1> QED BY <1>3, <1>4, <1>5, <1>8, RebootTruth DEF Next, vars, escVars

-----------------------------------------------------------------------------
(***************************************************************************)
(* The last theorem.                                                       *)
(***************************************************************************)

LEMMA InitTruth == ASSUME Init PROVE Truth
<1>1. marker = None /\ boot = 1 /\ table = FALSE
  BY DEF Init, NetInit
<1>2. run = [c \in Caller |-> [user |-> Idle, root |-> Idle]]
  BY DEF Init, EscInit
<1>3. \A c \in Caller : run[c].user = Idle /\ run[c].root = Idle
  BY <1>2
<1>4. \A c \in Caller : run[c]["user"] = Idle /\ run[c]["root"] = Idle
  BY <1>3, InitIInv, Dotted
<1>5. \A c \in Caller : Quiet(c) /\ ~Applied(c) /\ ~Cleared(c)
  BY <1>3, <1>4, IdleFields DEF Quiet, Applied, Cleared
<1>6. ~Shown
  BY <1>1, NetworkAssumption DEF Shown
<1> QED BY <1>1, <1>4, <1>5, <1>6, IdleFields DEF Truth

\* When all commands have ended and none was interrupted, and the marker could
\* be written or removed the last time it was to be, it agrees with the ruleset:
\* the panel shows a blackout exactly while there is one.
THEOREM ShownTrue == Spec => []ShownIsTrue
<1>1. Init => IInv /\ Truth
  BY InitIInv, InitTruth
<1>2. IInv /\ [Next]_vars => IInv'
  BY NextShaped, StageStep, PopulationStep, NetworkStep DEF IInv, World
<1>3. IInv /\ IInv' /\ Truth /\ [Next]_vars => Truth'
  BY TruthStep
<1>4. IInv /\ Truth => ShownIsTrue
  <2> SUFFICES ASSUME IInv, Truth, AllQuiet, smooth, ~flushed, ~astray PROVE Shown <=> table
    BY DEF ShownIsTrue
  <2>1. \A c \in Caller : ~Applied(c) /\ ~Cleared(c)
    BY QuietMeans DEF AllQuiet
  <2> QED BY <2>1 DEF Truth
<1> QED BY <1>1, <1>2, <1>3, <1>4, PTL DEF Spec
-----------------------------------------------------------------------------
(***************************************************************************)
(* The signals: whom they reach.  A process asked for by PID and start     *)
(* time and no other (OnlyTheNamed), no process that has been immune since *)
(* the runner opened it (ImmuneSpared); a process reported terminated is   *)
(* gone or killed (TerminatedIsDoomed), and evidence is filed by commands  *)
(* alone that have frozen a process (EvidenceOfFreezes).                   *)
(*                                                                         *)
(* Whatever processes do between two steps of a runner, start times only   *)
(* grow: a PID either still names the process it named, or one that        *)
(* started after (Evolves). So what a runner has seen of the past stays    *)
(* true of it, and Marked says what that is: for each runner where the     *)
(* process it has pinned can be (Known) and that it is none of the immune  *)
(* ones (Sheltered), for each caller what an outcome tells of it (Fate).   *)
(***************************************************************************)
\* The process of PID p started at s.
Has(p, s) == procs[p] # None /\ procs[p].start = s

\* Start times: none twice, none from the future.
Births ==
  /\ \A p \in Pid : procs[p] # None => procs[p].start <= born
  /\ \A p, q \in Pid : procs[p] # None /\ procs[q] # None /\ procs[p].start = procs[q].start => p = q
  /\ \A j \in setting.jobs : j.want # None => j.want <= born

\* What becomes of the table: a process stays what it is, or is gone, and only
\* then another with a later start time has its PID.
Evolves ==
  /\ born \in Nat /\ born' \in Nat /\ born <= born'
  /\ \A p \in Pid : procs[p] # None => procs[p].start \in Nat
  /\ \A p \in Pid : procs'[p] # None =>
       \/ /\ procs[p] # None /\ procs'[p].start = procs[p].start
          /\ procs[p].doomed => procs'[p].doomed
          /\ procs[p].owner = "root" => procs'[p].owner = "root"
       \/ procs'[p].start > born

\* The process that started at s has PID p, if it is still there.
Located(s, p) == \A q \in Pid : Has(q, s) => q = p

\* The process that started at s is gone, or killed, or became root's.
Gone(s) == \A p \in Pid : Has(p, s) => procs[p].doomed \/ procs[p].owner = "root"

\* What a runner knows of its target. A handle opened on an empty PID is no
\* handle, but then the process it was told of is not there; once it has pinned
\* a start time, its handle is that process's or nobody's.
Known(c, l) ==
  LET r == run[c][l] IN
  /\ r.want # None => r.want <= born
  /\ r.handle # None => r.handle <= born
  /\ r.start # None => r.start <= born /\ Located(r.start, r.arg)
  /\ r.at \in {"check", "pin"} /\ setting.pidfd /\ r.want # None /\ r.handle = None =>
       ~Has(r.arg, r.want)
  /\ r.at \in {"send", "grace"} /\ r.want # None =>
       r.start = r.want /\ (setting.pidfd => r.handle # None)
  /\ r.at \in {"send", "grace"} /\ r.handle # None =>
       r.handle = r.start \/ ~Has(r.arg, r.handle)
  /\ r.at = "grace" => r.op = "terminate" /\ (r.handle = None \/ r.handle = r.start)

\* What has been immune since the runner opened its target still is, and it is
\* not what a runner that has passed the safety gate is about to signal.
Sheltered(c, l) ==
  /\ shielded[c][l] \subseteq Immune(procs)
  /\ run[c][l].at \in {"pin", "send", "grace"} /\ procs[run[c][l].arg] # None =>
       procs[run[c][l].arg].start \notin shielded[c][l]

\* What has become of the target when a command or its helper is done.
Fate(c) ==
  LET u == run[c]["user"]
      h == run[c]["root"] IN
  /\ u.at = "done" /\ u.op = "terminate" /\ u.outcome = "ok" => Gone(u.start)
  /\ h.at = "done" /\ h.op = "terminate" /\ h.outcome = "ok" => Gone(h.start)
  /\ h.at = "done" /\ h.op \in SignalOp /\ h.outcome = "ok" /\ h.want # None => h.start = h.want
  /\ u.at \in {"await", "overdue"} /\ u.op \in SignalOp => u.start # None
  /\ u.at = "capture" => acted[c] /\ u.outcome = "ok"
  /\ h.at = "done" /\ h.op = "stop" /\ h.outcome = "ok" => acted[c]
  /\ u.filed # None => u.op = "stop" /\ u.outcome = "ok" /\ acted[c]

\* The invariant.
Marked == Births /\ \A c \in Caller : Fate(c) /\ \A l \in Level : Known(c, l) /\ Sheltered(c, l)

\* How the history of the immune processes goes on.
Shelters ==
  \A c \in Caller, l \in Level :
    /\ shielded'[c][l] \subseteq Immune(procs')
    /\ run[c][l].at \in {"pin", "send", "grace"} => shielded'[c][l] \subseteq shielded[c][l]

\* A step from a state of the invariant, and what every step leaves true.
Steady == IInv /\ IInv' /\ Marked /\ Evolves /\ Births' /\ setting' = setting /\ Shelters

-----------------------------------------------------------------------------
(***************************************************************************)
(* The process table grows older.                                          *)
(***************************************************************************)

\* What the type invariant says of processes.
LEMMA Facts ==
  ASSUME IInv
  PROVE  /\ born \in Nat /\ procs \in [Pid -> Process \cup {None}]
         /\ \A p \in Pid : procs[p] # None => procs[p] \in Process /\ procs[p].start \in Nat
         /\ setting \in Setting /\ Shaped /\ World
         /\ \A p \in Pid : \A s : Has(p, s) => s \in Nat
<1>1. World /\ Population /\ setting \in Setting /\ Shaped
  BY DEF IInv, World, Stage
<1>2. \A p \in Pid : procs[p] # None => procs[p] \in Process /\ procs[p].start \in Nat
  BY <1>1, ProcessType, ConstantFacts
<1> QED BY <1>1, <1>2, ConstantFacts DEF Population, Has

LEMMA StillEvolves == ASSUME IInv, Births, UNCHANGED <<procs, born, setting>>
  PROVE Evolves /\ Births'
<1>1. Evolves
  BY Facts DEF Evolves
<1> QED BY <1>1 DEF Births

\* A signal changes neither who is there nor whose it is.
LEMMA SignalEvolves ==
  ASSUME IInv, Births, NEW p \in Pid, procs[p] # None, NEW t \in Process, UNCHANGED <<born,
         setting>>,
         procs' = [procs EXCEPT ![p] = t], t.start = procs[p].start, t.kind = procs[p].kind,
         t.owner = procs[p].owner, procs[p].doomed => t.doomed
  PROVE  /\ Evolves /\ Births' /\ procs'[p] = t
         /\ \A q \in Pid : q # p => procs'[q] = procs[q]
         /\ Immune(procs') = Immune(procs)
<1>1. procs'[p] = t /\ \A q \in Pid : q # p => procs'[q] = procs[q]
  BY Facts
<1>2. t # None
  BY NobodyAssumption
<1>3. Evolves
  BY <1>1, Facts DEF Evolves
<1>4. Births'
  BY <1>1, <1>2 DEF Births
<1>5. Immune(procs') = Immune(procs)
  BY <1>1, <1>2 DEF Immune
<1> QED BY <1>1, <1>3, <1>4, <1>5

LEMMA EnvEvolves == ASSUME IInv, Births, ProcEnv PROVE Evolves /\ Births'
<1>0. /\ UNCHANGED setting /\ born \in Nat
      /\ \A p \in Pid : procs[p] # None => procs[p] \in Process /\ procs[p].start \in Nat
      /\ procs \in [Pid -> Process \cup {None}]
  BY Facts DEF ProcEnv, Exit, Spawn, Exec, Becomes, escVars
<1>1. ASSUME NEW p \in Pid, Exit(p) PROVE Evolves /\ Births'
  <2>1. procs' = [procs EXCEPT ![p] = None] /\ born' = born
    BY <1>1 DEF Exit, Becomes
  <2>2. procs'[p] = None /\ \A q \in Pid : q # p => procs'[q] = procs[q]
    BY <1>0, <2>1
  <2>3. Evolves
    BY <1>0, <2>1, <2>2 DEF Evolves
  <2> QED BY <1>0, <2>1, <2>2, <2>3 DEF Births
<1>2. ASSUME NEW p \in Pid, NEW kind, NEW owner, Spawn(p, kind, owner) PROVE Evolves /\ Births'
  <2>1. procs[p] = None /\ procs' = [procs EXCEPT ![p] = New(born + 1, kind, owner)] /\ born' = born + 1
    BY <1>2 DEF Spawn, Becomes
  <2>2. procs'[p].start = born + 1 /\ \A q \in Pid : q # p => procs'[q] = procs[q]
    BY <1>0, <2>1 DEF New
  <2>3. Evolves
    BY <1>0, <2>1, <2>2 DEF Evolves
  <2>4. \A q \in Pid : procs[q] # None => procs[q].start <= born
    BY DEF Births
  <2>5. \A q \in Pid : procs'[q] # None => procs'[q].start <= born'
    BY <1>0, <2>1, <2>2, <2>4
  <2>6. \A q, o \in Pid : procs'[q] # None /\ procs'[o] # None /\ procs'[q].start = procs'[o].start => q = o
    <3> SUFFICES ASSUME NEW q \in Pid, NEW o \in Pid, procs'[q] # None, procs'[o] # None,
                        procs'[q].start = procs'[o].start
                 PROVE  q = o
      OBVIOUS
    <3>1. CASE q = p /\ o # p
      BY <1>0, <2>1, <2>2, <2>4, <3>1
    <3>2. CASE o = p /\ q # p
      BY <1>0, <2>1, <2>2, <2>4, <3>2
    <3>3. CASE q # p /\ o # p
      BY <2>2, <3>3 DEF Births
    <3> QED BY <3>1, <3>2, <3>3
  <2>7. \A j \in setting.jobs : j.want # None => j.want <= born /\ j.want \in Nat
    <3>1. setting \in SettingType
      BY Facts, SettingAssumption
    <3> QED BY <3>1, ConstantFacts DEF Births, SettingType, Command
  <2>8. Births'
    BY <1>0, <2>1, <2>5, <2>6, <2>7 DEF Births
  <2> QED BY <2>3, <2>8
<1>3. ASSUME NEW p \in Pid, NEW kind, NEW owner, Exec(p, kind, owner) PROVE Evolves /\ Births'
  <2>1. /\ procs[p] # None /\ procs' = [procs EXCEPT ![p].kind = kind, ![p].owner = owner]
        /\ born' = born
        /\ procs[p].owner = "root" => owner = "root"
    BY <1>3 DEF Exec, Becomes
  <2>2. procs[p] \in Process
    BY <1>0, <2>1
  <2>3. /\ procs'[p].start = procs[p].start /\ procs'[p].doomed = procs[p].doomed
        /\ procs'[p].owner = owner /\ \A q \in Pid : q # p => procs'[q] = procs[q]
    BY <1>0, <2>1, <2>2 DEF Process
  <2>4. Evolves
    BY <1>0, <2>1, <2>3 DEF Evolves
  <2> QED BY <1>0, <2>1, <2>3, <2>4 DEF Births
<1> QED BY <1>1, <1>2, <1>3 DEF ProcEnv

\* The process a signal reaches: the one with the PID, by a pidfd of its own
\* or by none.

\* The process a signal reaches: the one with the PID, by a pidfd of its own or
\* by none.
LEMMA TargetIs ==
  ASSUME NEW r, Target(r) # None
  PROVE  Target(r) = procs[r.arg] /\ procs[r.arg] # None /\ (r.handle = None \/ r.handle = procs[r.arg].start)
  BY DEF Target

LEMMA SendEvolves ==
  ASSUME IInv, Births, NEW c \in Caller, NEW l \in Level, Send(c, l) \/ GraceStep(c, l)
  PROVE  Evolves /\ Births' /\ Immune(procs') = Immune(procs)
<1>1. PICK r, t : r = run[c][l] /\ t = Target(r)
  OBVIOUS
<1>2. r.arg \in Pid /\ UNCHANGED <<setting, born>>
  BY <1>1, ArgIsPid, Facts DEF Send, GraceStep, At, Signalling
<1>3. CASE UNCHANGED procs
  BY <1>2, <1>3, StillEvolves DEF Immune
<1>4. CASE t # None /\ procs' = [procs EXCEPT ![r.arg] = Signalled(r.op, t)]
  <2>1. t = procs[r.arg] /\ procs[r.arg] # None /\ t \in Process
    BY <1>1, <1>2, <1>4, TargetIs, Facts
  <2>2. PICK n : n = Signalled(r.op, t)
    OBVIOUS
  <2>3. n \in Process /\ n.start = t.start /\ n.kind = t.kind /\ n.owner = t.owner /\ n.doomed = t.doomed
    BY <2>1, <2>2 DEF Signalled, Process
  <2> QED BY <1>2, <1>4, <2>1, <2>2, <2>3, SignalEvolves
<1>5. CASE t # None /\ procs' = [procs EXCEPT ![r.arg].doomed = TRUE]
  <2>1. t = procs[r.arg] /\ procs[r.arg] # None /\ t \in Process
    BY <1>1, <1>2, <1>5, TargetIs, Facts
  <2>2. PICK n : n = [t EXCEPT !.doomed = TRUE]
    OBVIOUS
  <2>3. n \in Process /\ n.start = t.start /\ n.kind = t.kind /\ n.owner = t.owner /\ n.doomed
    BY <2>1, <2>2 DEF Process
  <2>4. procs' = [procs EXCEPT ![r.arg] = n]
    BY <1>2, <1>5, <2>1, <2>2, Facts
  <2> QED BY <1>2, <2>1, <2>3, <2>4, SignalEvolves
<1> QED BY <1>1, <1>3, <1>4, <1>5 DEF Send, GraceStep

LEMMA EvolvesStep == ASSUME IInv, Births, [Next]_vars PROVE Evolves /\ Births'
<1>1. ASSUME UNCHANGED <<procs, born>> PROVE Evolves /\ Births'
  BY <1>1, SameSetting, StillEvolves
<1>2. ASSUME ProcNext PROVE Evolves /\ Births'
  <2>1. ASSUME NEW c \in Caller, NEW l \in Level, Open(c, l) \/ Check(c, l) \/ Pin(c, l) \/ Capture(c)
        PROVE  Evolves /\ Births'
    BY <1>1, <2>1 DEF Open, Check, Pin, Capture, procVars
  <2> QED BY <1>2, <2>1, EnvEvolves, SendEvolves DEF ProcNext, Level
<1>3. ASSUME RebootAll PROVE Evolves /\ Births'
  <2>1. (\A p \in Pid : procs'[p] = None) /\ born' = born /\ setting' = setting
    BY <1>3 DEF RebootAll, Reboot
  <2>2. Evolves
    BY <2>1, Facts DEF Evolves
  <2> QED BY <2>1, <2>2 DEF Births
<1> QED BY <1>1, <1>2, <1>3 DEF Next, procVars, vars

-----------------------------------------------------------------------------
(***************************************************************************)
(* What stays true of a runner and of a caller as it does.                 *)
(***************************************************************************)

LEMMA Fields ==
  ASSUME IInv, NEW c \in Caller, NEW l \in Level
  PROVE  LET r == run[c][l] IN
         /\ r \in Runner
         /\ r.want # None => r.want \in Nat
         /\ r.start # None => r.start \in Nat
         /\ r.handle # None => r.handle \in Nat
<1>1. run[c][l] \in Runner
  BY TypeOf DEF IInv, Shaped
<1>2. PICK r : r = run[c][l]
  OBVIOUS
<1>3. /\ r.want \in 1..MaxBorn \cup {None} /\ r.start \in 1..MaxBorn \cup {None}
      /\ r.handle \in 1..MaxBorn \cup {None}
  BY <1>1, <1>2 DEF Runner
<1> QED BY <1>1, <1>2, <1>3, ConstantFacts

\* A start time of the past: who has it had it before.
LEMMA Ages ==
  ASSUME IInv, Evolves, NEW s \in Nat, s <= born, NEW p \in Pid, Has(p, s)'
  PROVE  /\ Has(p, s) /\ (procs[p].doomed => procs'[p].doomed)
         /\ procs[p].owner = "root" => procs'[p].owner = "root"
  BY DEF Evolves, Has

LEMMA StillLocated ==
  ASSUME IInv, Evolves, NEW s \in Nat, s <= born, NEW p, Located(s, p) PROVE Located(s, p)'
  BY Ages DEF Located

LEMMA StillGone ==
  ASSUME IInv, IInv', Evolves, NEW s, s # None => s \in Nat /\ s <= born, Gone(s) PROVE Gone(s)'
<1>1. CASE s = None
  BY <1>1, Facts, ConstantFacts DEF Gone, Has, IInv, World, Population, Process
<1>2. CASE s # None
  BY <1>2, Ages DEF Gone
<1> QED BY <1>1, <1>2

LEMMA KnownMoves ==
  ASSUME Steady, NEW c \in Caller, NEW l \in Level, Target5(run'[c][l], run[c][l]),
         LET r == run[c][l]
             n == run'[c][l] IN
         \/ n.at = r.at
         \/ n.at \notin {"check", "pin", "send", "grace"}
         \/ r.at = "check" /\ n.at = "pin"
         \/ r.at = "send" /\ n.at = "grace" /\ r.op = "terminate" /\ (r.handle = None \/ r.handle = r.start)
  PROVE  Known(c, l)'
<1>1. PICK r, n : r = run[c][l] /\ n = run'[c][l]
  OBVIOUS
<1>2. /\ IInv /\ Known(c, l) /\ Evolves /\ setting' = setting /\ born <= born' /\ born \in Nat
      /\ born' \in Nat
      /\ n.want = r.want /\ n.start = r.start /\ n.handle = r.handle /\ n.arg = r.arg /\ n.op = r.op
  BY <1>1 DEF Steady, Marked, Evolves, Target5
<1>3. /\ r.want # None => r.want \in Nat
      /\ r.start # None => r.start \in Nat
      /\ r.handle # None => r.handle \in Nat
      /\ r.at \in {"check", "pin", "send", "grace"} => r.arg \in Pid
  BY <1>1, <1>2, Fields, ArgIsPid DEF IInv, Signalling
<1>4. /\ n.want # None => n.want <= born'
      /\ n.handle # None => n.handle <= born'
  BY <1>1, <1>2, <1>3 DEF Known
<1>5. n.start # None => n.start <= born' /\ Located(n.start, n.arg)'
  BY <1>1, <1>2, <1>3, StillLocated DEF Known
<1>6. n.at \in {"check", "pin"} /\ setting'.pidfd /\ n.want # None /\ n.handle = None => ~Has(n.arg, n.want)'
  BY <1>1, <1>2, <1>3, Ages DEF Known
<1>7. n.at \in {"send", "grace"} /\ n.want # None => n.start = n.want /\ (setting'.pidfd => n.handle # None)
  BY <1>1, <1>2, <1>3 DEF Known
<1>8. n.at \in {"send", "grace"} /\ n.handle # None => n.handle = n.start \/ ~Has(n.arg, n.handle)'
  BY <1>1, <1>2, <1>3, Ages DEF Known
<1>9. n.at = "grace" => n.op = "terminate" /\ (n.handle = None \/ n.handle = n.start)
  BY <1>1, <1>2, <1>3 DEF Known
<1> QED BY <1>1, <1>4, <1>5, <1>6, <1>7, <1>8, <1>9 DEF Known, Located, Has

LEMMA KnownFresh ==
  ASSUME Steady, NEW c \in Caller, NEW l \in Level,
         LET n == run'[c][l] IN
         /\ n.handle = None /\ n.start = None /\ n.at \notin {"check", "pin", "send", "grace"}
         /\ n.want # None => n.want \in Nat /\ n.want <= born
  PROVE  Known(c, l)'
  BY DEF Known, Steady, Evolves

LEMMA ImmuneOld ==
  ASSUME IInv, Births PROVE \A s \in Immune(procs) : s \in Nat /\ s <= born
  BY Facts DEF Immune, Births

LEMMA ShelteredMoves ==
  ASSUME Steady, NEW c \in Caller, NEW l \in Level, run'[c][l].arg = run[c][l].arg,
         run'[c][l].at \in {"pin", "send", "grace"} => run[c][l].at \in {"pin", "send", "grace"}
  PROVE  Sheltered(c, l)'
<1>1. /\ IInv /\ Births /\ Sheltered(c, l) /\ Evolves
      /\ run[c][l].at \in {"pin", "send", "grace"} => shielded'[c][l] \subseteq shielded[c][l]
  BY DEF Steady, Marked, Shelters
<1>2. shielded'[c][l] \subseteq Immune(procs')
  BY DEF Steady, Shelters
<1>3. ASSUME run'[c][l].at \in {"pin", "send", "grace"}, procs'[run'[c][l].arg] # None
      PROVE  procs'[run'[c][l].arg].start \notin shielded'[c][l]
  <2>1. PICK p : p = run[c][l].arg
    OBVIOUS
  <2>2. p \in Pid
    BY <1>1, <1>3, <2>1, ArgIsPid DEF IInv, Signalling
  <2>3. CASE procs[p] # None /\ procs'[p].start = procs[p].start
    BY <1>1, <1>3, <2>1, <2>3 DEF Sheltered
  <2>4. CASE procs'[p].start > born
    BY <1>1, <1>3, <2>1, <2>4, ImmuneOld DEF Sheltered, Evolves
  <2> QED BY <1>1, <1>3, <2>1, <2>2, <2>3, <2>4 DEF Evolves
<1> QED BY <1>2, <1>3 DEF Sheltered

LEMMA FateStays ==
  ASSUME Steady, NEW c \in Caller, acted'[c] = acted[c],
         run'[c]["user"] = run[c]["user"], run'[c]["root"] = run[c]["root"]
  PROVE  Fate(c)'
<1>1. PICK u, h : u = run[c]["user"] /\ h = run[c]["root"]
  OBVIOUS
<1>2. IInv /\ IInv' /\ Evolves /\ Fate(c) /\ Known(c, "user") /\ Known(c, "root")
  BY DEF Steady, Marked, Level
<1>3. /\ u.start # None => u.start \in Nat /\ u.start <= born
      /\ h.start # None => h.start \in Nat /\ h.start <= born
  BY <1>1, <1>2, Fields DEF Known, Level
<1>4. Gone(u.start) => Gone(u.start)'
  BY <1>2, <1>3, StillGone
<1>5. Gone(h.start) => Gone(h.start)'
  BY <1>2, <1>3, StillGone
<1> QED BY <1>1, <1>2, <1>4, <1>5 DEF Fate, Gone, Has

LEMMA MarkedBoth ==
  ASSUME Steady, NEW c \in Caller, OtherCallers(c), \A d \in Caller \ {c} : acted'[d] = acted[d],
         Known(c, "user")', Known(c, "root")', Sheltered(c, "user")', Sheltered(c, "root")', Fate(c)'
  PROVE  Marked'
<1>1. ASSUME NEW d \in Caller, d # c PROVE Fate(d)'
  BY <1>1, FateStays DEF OtherCallers, Level
<1>2. ASSUME NEW d \in Caller, d # c, NEW l \in Level PROVE Known(d, l)' /\ Sheltered(d, l)'
  <2>1. run'[d][l] = run[d][l]
    BY <1>2 DEF OtherCallers
  <2>2. Known(d, l)'
    BY <2>1, KnownMoves DEF Target5
  <2>3. Sheltered(d, l)'
    BY <2>1, ShelteredMoves
  <2> QED BY <2>2, <2>3
<1>3. Births'
  BY DEF Steady
<1> QED BY <1>1, <1>2, <1>3 DEF Marked, Level

LEMMA MarkedOne ==
  ASSUME Steady, NEW c \in Caller, NEW l \in Level, Others(c, l),
         \A d \in Caller \ {c} : acted'[d] = acted[d],
         Known(c, l)', Sheltered(c, l)', Fate(c)'
  PROVE  Marked'
<1>1. ASSUME NEW k \in Level, k # l PROVE Known(c, k)' /\ Sheltered(c, k)'
  <2>1. run'[c][k] = run[c][k]
    BY <1>1 DEF Others
  <2>2. Known(c, k)'
    BY <2>1, KnownMoves DEF Target5
  <2>3. Sheltered(c, k)'
    BY <2>1, ShelteredMoves
  <2> QED BY <2>2, <2>3
<1>2. OtherCallers(c)
  BY DEF Others, OtherCallers
<1> QED BY <1>1, <1>2, MarkedBoth DEF Level

LEMMA StartOld ==
  ASSUME Steady, NEW c \in Caller, NEW k \in Level, NEW s, s = run[c][k].start
  PROVE  Gone(s) => Gone(s)'
<1>1. IInv /\ IInv' /\ Evolves /\ Known(c, k)
  BY DEF Steady, Marked
<1>2. s # None => s \in Nat /\ s <= born
  BY <1>1, Fields DEF Known
<1> QED BY <1>1, <1>2, StillGone

\* A command that is not over has filed nothing.
LEMMA Unfiled ==
  ASSUME IInv, NEW c \in Caller, NEW l \in Level, run[c][l].at # "done"
  PROVE  l = "user" => run[c][l].filed = None
  BY TypeOf DEF IInv, Shaped, Paired

LEMMA FateMoves ==
  ASSUME Steady, NEW c \in Caller, NEW l \in Level, Others(c, l), acted[c] => acted'[c],
         NEW r, NEW n, r = run[c][l], n = run'[c][l], n.op = r.op, n.want = r.want,
         n.start = r.start \/ n.at = "send",
         l = "user" => n.filed = None,
         n.at = "done" /\ n.op \in SignalOp /\ n.outcome = "ok" =>
           /\ r.op = "terminate" => Gone(r.start)'
           /\ l = "root" => /\ r.want # None => r.start = r.want
                            /\ r.op = "stop" => acted'[c],
         n.at \in {"await", "overdue"} /\ r.op \in SignalOp => r.start # None,
         n.at = "capture" => acted'[c] /\ n.outcome = "ok"
  PROVE  Fate(c)'
<1>1. PICK u, h : u = run[c]["user"] /\ h = run[c]["root"]
  OBVIOUS
<1>2. IInv /\ IInv' /\ Fate(c)
  BY DEF Steady, Marked
<1>3. /\ Gone(u.start) => Gone(u.start)'
      /\ Gone(h.start) => Gone(h.start)'
  BY <1>1, StartOld DEF Level
<1>4. CASE l = "user"
  <2>1. run'[c]["user"] = n /\ run'[c]["root"] = h /\ r = u
    BY <1>1, <1>4 DEF Others, Level
  <2> QED BY <1>1, <1>2, <1>3, <1>4, <2>1 DEF Fate, Gone, Has, SignalOp
<1>5. CASE l = "root"
  <2>1. run'[c]["root"] = n /\ run'[c]["user"] = u /\ r = h
    BY <1>1, <1>5 DEF Others, Level
  <2>2. /\ n.at = "done" /\ n.op = "terminate" /\ n.outcome = "ok" => Gone(n.start)'
        /\ n.at = "done" /\ n.op \in SignalOp /\ n.outcome = "ok" /\ n.want # None => n.start = n.want
        /\ n.at = "done" /\ n.op = "stop" /\ n.outcome = "ok" => acted'[c]
    BY <1>5 DEF SignalOp, Gone, Has
  <2>3. /\ u.at = "done" /\ u.op = "terminate" /\ u.outcome = "ok" => Gone(u.start)'
        /\ u.at \in {"await", "overdue"} /\ u.op \in SignalOp => u.start # None
        /\ u.at = "capture" => acted'[c] /\ u.outcome = "ok"
        /\ u.filed # None => u.op = "stop" /\ u.outcome = "ok" /\ acted'[c]
    BY <1>1, <1>2, <1>3 DEF Fate
  <2> QED BY <2>1, <2>2, <2>3 DEF Fate, Gone, Has
<1> QED BY <1>4, <1>5 DEF Level

LEMMA FieldsAt ==
  ASSUME IInv, NEW c \in Caller, NEW l \in Level
  PROVE  /\ Placed(run[c][l]) /\ Paired(run[c]["user"], run[c]["root"])
         /\ run[c].user = run[c]["user"] /\ run[c].root = run[c]["root"]
  BY TypeOf DEF IInv, Shaped

-----------------------------------------------------------------------------
(***************************************************************************)
(* The ways a runner goes on.                                              *)
(***************************************************************************)

\* The ways a runner goes on.
LEMMA OneMarked ==
  ASSUME Steady, NEW c \in Caller, NEW l \in Level, Others(c, l), acted[c] => acted'[c],
         \A d \in Caller \ {c} : acted'[d] = acted[d],
         NEW r, NEW n, r = run[c][l], n = run'[c][l], Target5(n, r),
         l = "user" => n.filed = None,
         n.at = "done" /\ n.op \in SignalOp /\ n.outcome = "ok" =>
           /\ r.op = "terminate" => Gone(r.start)'
           /\ l = "root" => /\ r.want # None => r.start = r.want
                            /\ r.op = "stop" => acted'[c],
         n.at \in {"await", "overdue"} /\ r.op \in SignalOp => r.start # None,
         n.at = "capture" => acted'[c] /\ n.outcome = "ok",
         \/ n.at = r.at
         \/ n.at \notin {"check", "pin", "send", "grace"}
         \/ r.at = "send" /\ n.at = "grace" /\ r.op = "terminate" /\ (r.handle = None \/ r.handle = r.start)
  PROVE  Marked'
<1>1. Known(c, l)'
  BY KnownMoves
<1>2. Sheltered(c, l)'
  BY ShelteredMoves DEF Target5
<1>3. Fate(c)'
  BY FateMoves DEF Target5
<1> QED BY <1>1, <1>2, <1>3, MarkedOne

LEMMA GoesMarked ==
  ASSUME Steady, NEW c \in Caller, NEW l \in Level, NEW x, Goes(c, l, x), acted' = acted,
         run[c][l].at # "done",
         x \notin {"check", "pin", "send", "grace", "capture", "await", "overdue"},
         x = "done" => run[c][l].op \notin SignalOp
  PROVE  Marked'
<1>1. PICK r, n : r = run[c][l] /\ n = run'[c][l]
  OBVIOUS
<1>2. n.at = x /\ Target5(n, r) /\ Others(c, l) /\ n.outcome = r.outcome /\ n.filed = r.filed /\ n.op = r.op
  BY <1>1, GoesRun DEF Steady, IInv, Core, Target5
<1>3. l = "user" => n.filed = None
  BY <1>1, <1>2, Unfiled DEF Steady
<1> QED BY <1>1, <1>2, <1>3, OneMarked

LEMMA EndsMarked ==
  ASSUME Steady, NEW c \in Caller, NEW l \in Level, NEW o, Ends(c, l, o), acted[c] => acted'[c],
         \A d \in Caller \ {c} : acted'[d] = acted[d],
         NEW r, r = run[c][l], r.at # "done",
         o = "ok" /\ r.op \in SignalOp =>
           /\ r.op = "terminate" /\ Gone(r.start)'
           /\ r.want # None => r.start = r.want
  PROVE  Marked'
<1>1. PICK n : n = run'[c][l]
  OBVIOUS
<1>2. n.at = "done" /\ Target5(n, r) /\ Others(c, l) /\ n.outcome = o /\ n.filed = r.filed /\ n.op = r.op
  BY <1>1, EndsRun DEF Steady, IInv, Core, Target5
<1>3. l = "user" => n.filed = None
  BY <1>1, <1>2, Unfiled DEF Steady
<1> QED BY <1>1, <1>2, <1>3, OneMarked

LEMMA WaitsMarked ==
  ASSUME Steady, NEW c \in Caller, Waits(c), acted' = acted,
         run[c]["user"].op \in SignalOp => run[c]["user"].start # None
  PROVE  Marked'
<1>1. PICK r, n, h : r = run[c]["user"] /\ n = run'[c]["user"] /\ h = run'[c]["root"]
  OBVIOUS
<1>2. /\ IInv /\ IInv' /\ Fate(c) /\ Known(c, "user")
      /\ r.start # None => r.start \in Nat
  BY <1>1, Fields DEF Steady, Marked, Level
<1>3. /\ n.at = "await" /\ Target5(n, r) /\ OtherCallers(c) /\ n.outcome = r.outcome
      /\ Fresh(h, "prompt", r.op, r.arg, r.start)
  BY <1>1 DEF Waits, Core
<1>4. n.filed = None
  BY <1>1, <1>2, <1>3, FieldsAt DEF Paired, IInv, Shaped, Level
<1>5. Known(c, "user")'
  BY <1>1, <1>3, KnownMoves DEF Level
<1>6. Known(c, "root")'
  BY <1>1, <1>2, <1>3, KnownFresh DEF Level, Fresh, Known
<1>7. Sheltered(c, "user")'
  BY <1>1, <1>3, ShelteredMoves DEF Level, Target5
<1>8. Sheltered(c, "root")'
  <2>1. shielded'[c]["root"] \subseteq Immune(procs')
    BY DEF Steady, Shelters, Level
  <2> QED BY <1>1, <1>3, <2>1 DEF Sheltered, Fresh
<1>9. Fate(c)'
  BY <1>1, <1>3, <1>4 DEF Fate, Fresh, Target5
<1> QED BY <1>3, <1>5, <1>6, <1>7, <1>8, <1>9, MarkedBoth

LEMMA EscalatesMarked ==
  ASSUME Steady, NEW c \in Caller, NEW l \in Level, Escalates(c, l), acted' = acted,
         run[c][l].at # "done",
         run[c][l].op \in SignalOp => run[c][l].start # None
  PROVE  Marked'
<1>1. Shaped
  BY DEF Steady, IInv
<1>2. CASE Ends(c, l, "failed")
  BY <1>2, EndsMarked
<1>3. CASE l = "user" /\ Waits(c)
  BY <1>3, WaitsMarked
<1> QED BY <1>1, <1>2, <1>3, EscalatesRun

\* A runner that is idle, or has just been given its operation.
LEMMA IdleMarked ==
  ASSUME Steady, NEW c \in Caller, NEW l \in Level, run'[c][l] = Idle
  PROVE  Known(c, l)' /\ Sheltered(c, l)'
<1>1. Known(c, l)'
  BY KnownFresh, IdleFields
<1>2. Sheltered(c, l)'
  BY IdleFields DEF Sheltered, Steady, Shelters
<1> QED BY <1>1, <1>2

-----------------------------------------------------------------------------
(***************************************************************************)
(* Each action of Escalation.                                              *)
(***************************************************************************)

LEMMA RequestMarked ==
  ASSUME Steady, NEW c \in Caller, NEW job \in setting.jobs, Request(c, job)
  PROVE  Marked'
<1>1. PICK n : n = run'[c]["user"]
  OBVIOUS
<1>2. /\ Fresh(n, FirstStep(job.op), job.op, job.arg, job.want)
      /\ run'[c]["root"] = Idle /\ OtherCallers(c) /\ job \in Command
  BY <1>1, RequestRun DEF Steady
<1>3. n.at \in {"open", "count", "nft"}
  BY <1>2 DEF Fresh, FirstStep
<1>4. \A d \in Caller \ {c} : acted'[d] = acted[d]
  BY DEF Request, Steady, IInv, World, Stage
<1>5. n.want # None => n.want \in Nat /\ n.want <= born
  BY <1>2, ConstantFacts DEF Steady, Marked, Births, Fresh, Command
<1>6. Known(c, "user")'
  BY <1>1, <1>2, <1>3, <1>5, KnownFresh DEF Fresh, Level
<1>7. Sheltered(c, "user")'
  BY <1>1, <1>3 DEF Sheltered, Steady, Shelters, Level
<1>8. Known(c, "root")' /\ Sheltered(c, "root")'
  BY <1>2, IdleMarked DEF Level
<1>9. Fate(c)'
  BY <1>1, <1>2, <1>3, IdleFields DEF Fate, Fresh
<1> QED BY <1>2, <1>4, <1>6, <1>7, <1>8, <1>9, MarkedBoth

\* The helper is gone and the command goes on.
LEMMA AnsweredMarked ==
  ASSUME Steady, NEW c \in Caller, acted' = acted, OtherCallers(c), run'[c]["root"] = Idle,
         NEW u, NEW n, u = run[c]["user"], n = run'[c]["user"], Target5(n, u), n.filed = None,
         \/ n.at = u.at /\ n.outcome = u.outcome
         \/ /\ n.at \notin {"check", "pin", "send", "grace", "await", "overdue"}
            /\ n.at = "done" /\ n.op = "terminate" /\ n.outcome = "ok" => Gone(u.start)
            /\ n.at = "capture" => acted[c] /\ n.outcome = "ok"
  PROVE  Marked'
<1>1. Gone(u.start) => Gone(u.start)'
  BY StartOld DEF Level
<1>2. Known(c, "user")'
  BY KnownMoves DEF Level
<1>3. Sheltered(c, "user")'
  BY ShelteredMoves DEF Level, Target5
<1>4. Known(c, "root")' /\ Sheltered(c, "root")'
  BY IdleMarked DEF Level
<1>5. Fate(c)
  BY DEF Steady, Marked
<1>6. /\ n.at = "done" /\ n.op = "terminate" /\ n.outcome = "ok" => Gone(u.start)'
      /\ n.at \in {"await", "overdue"} /\ n.op \in SignalOp => n.start # None
      /\ n.at = "capture" => acted'[c] /\ n.outcome = "ok"
  BY <1>1, <1>5 DEF Fate, Target5
<1>7. Fate(c)'
  BY <1>6, IdleFields DEF Fate, Target5, Gone, Has
<1> QED BY <1>2, <1>3, <1>4, <1>7, MarkedBoth

LEMMA DenyMarked == ASSUME Steady, NEW c \in Caller, Deny(c) PROVE Marked'
<1>1. PICK u, n : u = run[c]["user"] /\ n = run'[c]["user"]
  OBVIOUS
<1>2. /\ run'[c]["root"] = Idle /\ OtherCallers(c) /\ Target5(n, u) /\ n.filed = u.filed
      /\ n = u \/ (n.at = "done" /\ n.outcome = "cancelled")
  BY <1>1, DenyRun DEF Steady, Answered, Core
<1>3. u.filed = None
  BY <1>1, FieldsAt DEF Steady, Paired, Deny, At, Level
<1> QED BY <1>1, <1>2, <1>3, AnsweredMarked DEF Deny

LEMMA ReturnMarked == ASSUME Steady, NEW c \in Caller, Return(c) PROVE Marked'
<1>1. PICK u, n, h : u = run[c]["user"] /\ n = run'[c]["user"] /\ h = run[c]["root"]
  OBVIOUS
<1>2. /\ run'[c]["root"] = Idle /\ OtherCallers(c) /\ Target5(n, u) /\ n.filed = u.filed
      /\ h.at = "done"
      /\ \/ n = u
         \/ n.at = "done" /\ n.outcome = "timeout"
         \/ u.at = "await" /\ n.at = AfterHelper(u, h.outcome) /\ n.outcome = h.outcome
  BY <1>1, ReturnRun DEF Steady, Answered, Core
<1>5. n.filed = None
  BY <1>1, <1>2, FieldsAt DEF Steady, Paired, Level
<1>3. CASE u.at = "await" /\ n.at = AfterHelper(u, h.outcome) /\ n.outcome = h.outcome
  <2>1. h.op = u.op /\ h.want = u.start
    BY <1>1, <1>3, FieldsAt DEF Steady, Paired, Level
  <2>2. Fate(c)
    BY DEF Steady, Marked
  <2>3. n.at = "done" /\ n.op = "terminate" /\ n.outcome = "ok" => Gone(u.start)
    BY <1>1, <1>2, <1>3, <2>1, <2>2 DEF Fate, Target5, SignalOp
  <2>4. n.at = "capture" => acted[c] /\ n.outcome = "ok"
    BY <1>1, <1>2, <1>3, <2>1, <2>2 DEF Fate, AfterHelper, SignalOp
  <2>5. n.at \notin {"check", "pin", "send", "grace", "await", "overdue"}
    BY <1>3 DEF AfterHelper
  <2>6. acted' = acted
    BY DEF Return
  <2> QED BY <1>1, <1>2, <1>5, <2>3, <2>4, <2>5, <2>6, AnsweredMarked
<1>4. CASE n = u \/ (n.at = "done" /\ n.outcome = "timeout")
  BY <1>1, <1>2, <1>4, <1>5, AnsweredMarked DEF Return
<1> QED BY <1>2, <1>3, <1>4

LEMMA TimeOutMarked == ASSUME Steady, NEW c \in Caller, TimeOut(c) PROVE Marked'
<1>1. PICK u, n : u = run[c]["user"] /\ n = run'[c]["user"]
  OBVIOUS
<1>2. /\ OtherCallers(c) /\ Target5(n, u) /\ n.filed = u.filed /\ u.at = "await" /\ acted' = acted
      /\ \/ n.at = "done" /\ n.outcome = "timeout" /\ run'[c]["root"] = Idle
         \/ n.at = "overdue" /\ run'[c]["root"] = run[c]["root"]
  BY <1>1, TimeOutRun DEF Steady, Core, TimeOut
<1>5. n.filed = None
  BY <1>1, <1>2, Unfiled DEF Steady, Level
<1>3. CASE n.at = "done" /\ n.outcome = "timeout" /\ run'[c]["root"] = Idle
  BY <1>1, <1>2, <1>3, <1>5, AnsweredMarked
<1>4. CASE n.at = "overdue" /\ run'[c]["root"] = run[c]["root"]
  <2>1. Others(c, "user")
    BY <1>2, <1>4 DEF Others, OtherCallers, Level
  <2>2. u.op \in SignalOp => u.start # None
    BY <1>1, <1>2 DEF Steady, Marked, Fate
  <2> QED BY <1>1, <1>2, <1>4, <1>5, <2>1, <2>2, OneMarked DEF Level
<1> QED BY <1>2, <1>3, <1>4

LEMMA CrashMarked == ASSUME Steady, NEW c \in Caller, Crash(c) PROVE Marked'
<1>1. run'[c]["user"] = Idle /\ Others(c, "user") /\ acted' = acted
  BY CrashRun DEF Steady, Crash
<1>2. PICK h : h = run[c]["root"]
  OBVIOUS
<1>3. run'[c]["root"] = h
  BY <1>1, <1>2 DEF Others, Level
<1>4. Known(c, "user")' /\ Sheltered(c, "user")'
  BY <1>1, IdleMarked DEF Level
<1>5. Gone(h.start) => Gone(h.start)'
  BY <1>2, StartOld DEF Level
<1>6. Fate(c)
  BY DEF Steady, Marked
<1>7. Fate(c)'
  BY <1>1, <1>2, <1>3, <1>5, <1>6, IdleFields DEF Fate, Gone, Has
<1> QED BY <1>1, <1>4, <1>7, MarkedOne DEF Level

-----------------------------------------------------------------------------
(***************************************************************************)
(* Each action of ProcessSignal.                                           *)
(***************************************************************************)

LEMMA OpenMarked ==
  ASSUME Steady, NEW c \in Caller, NEW l \in Level, Open(c, l) PROVE Marked'
<1>1. PICK r, n : r = run[c][l] /\ n = run'[c][l]
  OBVIOUS
<1>2. /\ n.at = "check" /\ n.op = r.op /\ n.arg = r.arg /\ n.want = r.want /\ n.start = r.start
      /\ n.handle = IF setting.pidfd /\ procs[r.arg] # None THEN procs[r.arg].start ELSE None
      /\ n.filed = r.filed /\ Others(c, l)
      /\ r.at = "open" /\ acted' = acted /\ procs' = procs /\ born' = born /\ setting' = setting
  <2>1. r.at = "open" /\ acted' = acted /\ procs' = procs /\ born' = born /\ setting' = setting
    BY <1>1 DEF Open, At
  <2> QED BY <1>1, <2>1, OpenRun DEF Steady, IInv
<1>3. IInv /\ Births /\ Known(c, l) /\ r.arg \in Pid
  BY <1>1, <1>2, ArgIsPid DEF Steady, Marked, IInv, Signalling
<1>4. procs[r.arg] # None => procs[r.arg].start \in Nat /\ procs[r.arg].start <= born
  BY <1>3, Facts DEF Births
<1>5. /\ n.want # None => n.want <= born'
      /\ n.handle # None => n.handle <= born'
      /\ n.start # None => n.start <= born' /\ Located(n.start, n.arg)
      /\ setting'.pidfd /\ n.want # None /\ n.handle = None => ~Has(n.arg, n.want)
  BY <1>1, <1>2, <1>3, <1>4, ConstantFacts DEF Known, Has
<1>6. Known(c, l)'
  BY <1>1, <1>2, <1>5 DEF Known, Located, Has
<1>7. Sheltered(c, l)'
  BY <1>1, <1>2 DEF Sheltered, Steady, Shelters
<1>9. l = "user" => n.filed = None
  BY <1>1, <1>2, Unfiled DEF Steady
<1>8. Fate(c)'
  BY <1>1, <1>2, <1>9, FateMoves
<1> QED BY <1>2, <1>6, <1>7, <1>8, MarkedOne

LEMMA CheckMarked ==
  ASSUME Steady, NEW c \in Caller, NEW l \in Level, Check(c, l) PROVE Marked'
<1>1. PICK r, n : r = run[c][l] /\ n = run'[c][l]
  OBVIOUS
<1>2. r.at = "check" /\ acted' = acted /\ procs' = procs
  BY <1>1 DEF Check, At, procVars
<1>3. CASE Ends(c, l, "failed")
  BY <1>1, <1>2, <1>3, EndsMarked
<1>4. CASE Goes(c, l, "pin") /\ ~Refused(r.arg, l)
  <2>1. n.at = "pin" /\ Target5(n, r) /\ Others(c, l) /\ n.filed = r.filed
    BY <1>1, <1>4, GoesRun DEF Steady, IInv, Core
  <2>2. Known(c, l)'
    BY <1>1, <1>2, <2>1, KnownMoves
  <2>3. IInv /\ Births /\ r.arg \in Pid
    BY <1>1, <1>2, ArgIsPid DEF Steady, Marked, IInv, Signalling
  <2>4. procs[r.arg].start \notin Immune(procs)
    BY <1>4, <2>3 DEF Refused, LooksImmune, Immune, Births
  <2>5. shielded'[c][l] \subseteq Immune(procs)
    BY <1>2 DEF Steady, Shelters
  <2>6. Sheltered(c, l)'
    BY <1>1, <1>2, <2>1, <2>4, <2>5 DEF Sheltered, Target5
  <2>8. l = "user" => n.filed = None
    BY <1>1, <1>2, <2>1, Unfiled DEF Steady
  <2>7. Fate(c)'
    BY <1>1, <1>2, <2>1, <2>8, FateMoves DEF Target5
  <2> QED BY <1>2, <2>1, <2>2, <2>6, <2>7, MarkedOne
<1> QED BY <1>1, <1>3, <1>4 DEF Check

LEMMA PinMarked ==
  ASSUME Steady, NEW c \in Caller, NEW l \in Level, Pin(c, l) PROVE Marked'
<1>1. PICK r, n : r = run[c][l] /\ n = run'[c][l]
  OBVIOUS
<1>2. r.at = "pin" /\ acted' = acted /\ procs' = procs /\ born' = born /\ setting' = setting
  BY <1>1 DEF Pin, At, procVars
<1>3. CASE Ends(c, l, "failed")
  BY <1>1, <1>2, <1>3, EndsMarked
<1>4. CASE ~Ends(c, l, "failed")
  <2>1. /\ n.at = "send" /\ n.op = r.op /\ n.arg = r.arg /\ n.want = r.want /\ n.handle = r.handle
        /\ n.start = procs[r.arg].start /\ n.filed = r.filed /\ Others(c, l)
    BY <1>1, <1>4, PinRun DEF Steady, IInv
  <2>2. procs[r.arg] # None /\ (r.want # None => r.want = n.start)
    BY <1>1, <1>4, <2>1 DEF Pin, Mismatch
  <2>3. IInv /\ Births /\ Known(c, l) /\ r.arg \in Pid
    BY <1>1, <1>2, ArgIsPid DEF Steady, Marked, IInv, Signalling
  <2>4. n.start \in Nat /\ n.start <= born /\ Has(r.arg, n.start)
    BY <2>1, <2>2, <2>3, Facts DEF Births, Has
  <2>5. /\ n.want # None => n.want <= born'
        /\ n.handle # None => n.handle <= born'
        /\ n.start # None => n.start <= born' /\ Located(n.start, n.arg)
    BY <1>1, <1>2, <2>1, <2>2, <2>3, <2>4 DEF Known, Located, Has, Births
  <2>6. n.want # None => n.start = n.want /\ (setting'.pidfd => n.handle # None)
    BY <1>1, <1>2, <2>1, <2>2, <2>3, <2>4 DEF Known
  <2>7. n.handle # None => n.handle = n.start \/ ~Has(n.arg, n.handle)
    BY <2>1 DEF Has
  <2>8. Known(c, l)'
    BY <1>1, <1>2, <2>1, <2>5, <2>6, <2>7 DEF Known, Located, Has
  <2>9. Sheltered(c, l)'
    BY <1>1, <1>2, <2>1, ShelteredMoves
  <2>10. n.filed = None \/ l = "root"
    BY <1>1, <1>2, <2>1, FieldsAt DEF Steady, Paired, Level
  <2>11. Fate(c)'
    <3>1. CASE l = "user"
      <4>1. run[c]["root"].at = "idle" /\ run'[c]["root"] = run[c]["root"]
        BY <1>1, <1>2, <2>1, <3>1, FieldsAt DEF Steady, Paired, Level, Others
      <4> QED BY <1>1, <2>1, <2>10, <3>1, <4>1 DEF Fate
    <3>2. CASE l = "root"
      <4>1. PICK u : u = run[c]["user"]
        OBVIOUS
      <4>2. run'[c]["user"] = u /\ run'[c]["root"].at = "send"
        BY <1>1, <2>1, <3>2, <4>1 DEF Others, Level
      <4>3. Gone(u.start) => Gone(u.start)'
        BY <4>1, StartOld DEF Level
      <4>4. Fate(c)
        BY DEF Steady, Marked
      <4> QED BY <1>2, <4>1, <4>2, <4>3, <4>4 DEF Fate, Gone, Has
    <3> QED BY <3>1, <3>2 DEF Level
  <2> QED BY <1>2, <2>1, <2>8, <2>9, <2>11, MarkedOne
<1> QED BY <1>3, <1>4

\* Who may be signalled: whom the runner has pinned, if it was told whom.
LEMMA TargetKnown ==
  ASSUME IInv, Marked, NEW c \in Caller, NEW l \in Level, run[c][l].at \in {"send", "grace"},
         Target(run[c][l]) # None
  PROVE  LET r == run[c][l]
             t == Target(r) IN
         /\ r.arg \in Pid /\ t = procs[r.arg] /\ t # None
         /\ r.handle = None \/ (r.handle = r.start /\ t.start = r.start)
         /\ setting.pidfd /\ r.want # None => t.start = r.want
         /\ t.start \notin shielded[c][l]
<1>1. PICK r, t : r = run[c][l] /\ t = Target(r)
  OBVIOUS
<1>2. t = procs[r.arg] /\ t # None /\ (r.handle = None \/ r.handle = t.start)
  BY <1>1, TargetIs
<1>3. r.arg \in Pid /\ Known(c, l) /\ Sheltered(c, l)
  BY <1>1, ArgIsPid DEF IInv, Marked, Signalling
<1>4. r.handle # None => r.handle = r.start
  BY <1>1, <1>2, <1>3 DEF Known, Has
<1> QED BY <1>1, <1>2, <1>3, <1>4 DEF Known, Sheltered

LEMMA SendMarked ==
  ASSUME Steady, NEW c \in Caller, NEW l \in Level, Send(c, l) PROVE Marked'
<1>1. PICK r, n, t : r = run[c][l] /\ n = run'[c][l] /\ t = Target(r)
  OBVIOUS
<1>2. r.at = "send" /\ r.start # None /\ r.op \in SignalOp /\ IInv /\ Marked
  BY <1>1, FieldsAt DEF Steady, Send, At, Placed, Signalling
<1>3. CASE Ends(c, l, "failed") /\ acted' = acted
  BY <1>1, <1>2, <1>3, EndsMarked
<1>4. CASE Escalates(c, l) /\ acted' = acted
  BY <1>1, <1>2, <1>4, EscalatesMarked
<1>5. CASE /\ t # None /\ Delivered(c, l, t)
           /\ run' = [run EXCEPT ![c][l].at = AfterSignal(run[c][l].op, l), ![c][l].outcome = "ok"]
  <2>1. /\ n.at = AfterSignal(r.op, l) /\ n.outcome = "ok" /\ n.filed = r.filed /\ Target5(n, r)
        /\ Others(c, l)
    BY <1>1, <1>2, <1>5, SentRun DEF IInv, Core
  <2>2. acted'[c] = TRUE /\ \A d \in Caller \ {c} : acted'[d] = acted[d]
    BY <1>2, <1>5 DEF Delivered, IInv, World, Stage
  <2>3. r.handle = None \/ r.handle = r.start
    BY <1>1, <1>2, <1>5, TargetKnown
  <2>4. r.want # None => r.start = r.want
    BY <1>1, <1>2 DEF Marked, Known
  <2>5. l = "user" => n.filed = None
    BY <1>1, <1>2, <2>1, Unfiled
  <2> QED BY <1>1, <1>2, <2>1, <2>2, <2>3, <2>4, <2>5, OneMarked DEF AfterSignal, Target5
<1> QED BY <1>1, <1>3, <1>4, <1>5 DEF Send

LEMMA GraceMarked ==
  ASSUME Steady, NEW c \in Caller, NEW l \in Level, GraceStep(c, l) PROVE Marked'
<1>1. PICK r, n, t : r = run[c][l] /\ n = run'[c][l] /\ t = Target(r)
  OBVIOUS
<1>2. /\ r.at = "grace" /\ r.start # None /\ r.op = "terminate" /\ IInv /\ Marked
      /\ Located(r.start, r.arg) /\ (r.handle = None \/ r.handle = r.start)
      /\ r.want # None => r.start = r.want
  BY <1>1, FieldsAt DEF Steady, Marked, GraceStep, At, Placed, Known
<1>3. CASE ~(t # None /\ MaySignal(l, t)) /\ Ends(c, l, "ok") /\ UNCHANGED <<procs, acted>>
  <2>1. ASSUME NEW p \in Pid, Has(p, r.start) PROVE procs[p].owner = "root"
    <3>1. p = r.arg /\ t = procs[p]
      BY <1>1, <1>2, <2>1 DEF Located, Has, Target
    <3>2. procs[p] \in Process /\ l = "user"
      BY <1>2, <1>3, <2>1, <3>1, Facts DEF Has, MaySignal, Level
    <3> QED BY <1>3, <2>1, <3>1, <3>2 DEF Has, MaySignal, Process, Level
  <2>2. Gone(r.start)'
    BY <1>3, <2>1 DEF Gone, Has
  <2> QED BY <1>1, <1>2, <1>3, <2>2, EndsMarked
<1>4. CASE run' = [run EXCEPT ![c][l].tries = @ + 1] /\ acted' = acted
  <2>1. n.at = r.at /\ Target5(n, r) /\ n.filed = r.filed /\ Others(c, l)
    BY <1>1, <1>2, <1>4, TriedRun DEF IInv, Core
  <2>2. /\ n.at = "grace" /\ n.at # "done" /\ n.at # "capture" /\ n.at \notin {"await", "overdue"}
        /\ acted' = acted
    BY <1>2, <1>4, <2>1
  <2>3. l = "user" => n.filed = None
    BY <1>1, <1>2, <2>1, Unfiled
  <2> QED BY <1>1, <2>1, <2>2, <2>3, OneMarked
<1>5. CASE t # None /\ Delivered(c, l, t) /\ Ends(c, l, "ok") /\ procs' = [procs EXCEPT ![r.arg].doomed = TRUE]
  <2>1. acted'[c] = TRUE /\ \A d \in Caller \ {c} : acted'[d] = acted[d]
    BY <1>2, <1>5 DEF Delivered, IInv, World, Stage
  <2>2. procs[r.arg] # None /\ r.arg \in Pid /\ procs \in [Pid -> Process \cup {None}]
    BY <1>1, <1>2, <1>5, TargetKnown, Facts
  <2>3. procs'[r.arg].doomed /\ \A p \in Pid : p # r.arg => procs'[p] = procs[p]
    <3>1. procs[r.arg] \in Process
      BY <2>2
    <3> QED BY <1>5, <2>2, <3>1 DEF Process
  <2>4. Gone(r.start)'
    BY <1>2, <2>3 DEF Gone, Located, Has
  <2> QED BY <1>1, <1>2, <1>5, <2>1, <2>4, EndsMarked
<1> QED BY <1>1, <1>3, <1>4, <1>5 DEF GraceStep

LEMMA CaptureMarked == ASSUME Steady, NEW c \in Caller, Capture(c) PROVE Marked'
<1>1. PICK u, n : u = run[c]["user"] /\ n = run'[c]["user"]
  OBVIOUS
<1>2. /\ u.at = "capture" /\ n.at = "done" /\ n.outcome = u.outcome /\ Target5(n, u)
      /\ Others(c, "user") /\ acted' = acted
  BY <1>1, CaptureRun, FieldsAt DEF Steady, IInv, Core, Capture, At, Level
<1>3. u.op = "stop" /\ acted[c] /\ u.outcome = "ok"
  BY <1>1, <1>2, FieldsAt DEF Steady, Marked, Fate, Placed, Level
<1>4. run[c]["root"].at = "idle" /\ run'[c]["root"] = run[c]["root"]
  BY <1>1, <1>2, FieldsAt DEF Steady, Paired, Others, Level
<1>5. Fate(c)'
  BY <1>1, <1>2, <1>3, <1>4 DEF Fate, Target5
<1>6. Known(c, "user")'
  BY <1>1, <1>2, KnownMoves DEF Level
<1>7. Sheltered(c, "user")'
  BY <1>1, <1>2, ShelteredMoves DEF Level, Target5
<1> QED BY <1>2, <1>5, <1>6, <1>7, MarkedOne DEF Level

LEMMA SameMarked == ASSUME Steady, UNCHANGED <<run, acted>> PROVE Marked'
<1>1. Births'
  BY DEF Steady
<1>2. ASSUME NEW c \in Caller PROVE Fate(c)'
  BY FateStays
<1>3. ASSUME NEW c \in Caller, NEW l \in Level PROVE Known(c, l)' /\ Sheltered(c, l)'
  <2>1. Known(c, l)'
    BY KnownMoves DEF Target5
  <2>2. Sheltered(c, l)'
    BY ShelteredMoves
  <2> QED BY <2>1, <2>2
<1> QED BY <1>1, <1>2, <1>3 DEF Marked

LEMMA IdleFate ==
  ASSUME NEW c \in Caller, run'[c]["user"] = Idle, run'[c]["root"] = Idle PROVE Fate(c)'
  BY IdleFields DEF Fate

LEMMA RebootMarked == ASSUME Steady, RebootAll PROVE Marked'
<1>1. \A c \in Caller, l \in Level : run'[c][l] = Idle
  BY RebootRun
<1>2. Births'
  BY DEF Steady
<1> QED BY <1>1, <1>2, IdleMarked, IdleFate DEF Marked, Level

-----------------------------------------------------------------------------
(***************************************************************************)
(* Every step keeps the invariant.                                         *)
(***************************************************************************)

LEMMA NetMarked == ASSUME Steady, NetNext PROVE Marked'
<1>1. ASSUME NEW c \in Caller, NftAsUser(c) \/ NftFails(c) PROVE Marked'
  <2>1. PICK l \in Level : run[c][l].at = "nft" /\ Escalates(c, l) /\ acted' = acted
    BY <1>1 DEF NftAsUser, NftFails, At, Level
  <2>2. run[c][l].op \notin SignalOp
    BY <2>1, FieldsAt DEF Steady, Placed, SignalOp, RulesetOp
  <2> QED BY <2>1, <2>2, EscalatesMarked
<1>2. ASSUME NEW c \in Caller, NftAsRoot(c) PROVE Marked'
  <2>1. run[c]["root"].op \notin SignalOp /\ run[c]["root"].at # "done"
    BY <1>2, FieldsAt DEF Steady, Placed, SignalOp, RulesetOp, NftAsRoot, At, Level
  <2>2. acted'[c] = TRUE /\ \A d \in Caller \ {c} : acted'[d] = acted[d]
    BY <1>2 DEF NftAsRoot, Steady, IInv, World, Stage
  <2> QED BY <1>2, <2>1, <2>2, EndsMarked DEF NftAsRoot, Level
<1>3. ASSUME NEW c \in Caller, Mark(c) \/ WriteMarker(c) \/ Unmark(c) PROVE Marked'
  <2>1. run[c]["user"].op \notin SignalOp /\ run[c]["user"].at # "done"
    BY <1>3, FieldsAt DEF Steady, Placed, SignalOp, Mark, WriteMarker, Unmark, At, Level
  <2>2. PICK x \in {"write", "done"} : Goes(c, "user", x) /\ acted' = acted
    BY <1>3 DEF Mark, WriteMarker, Unmark, Leaves
  <2> QED BY <2>1, <2>2, GoesMarked DEF Level
<1>4. ASSUME NEW c \in Caller, NEW l \in Level, Count(c, l) \/ Kill(c, l) \/ Recount(c, l)
  PROVE Marked'
  <2>1. run[c][l].op \notin SignalOp /\ run[c][l].at # "done" /\ acted' = acted
    BY <1>4, FieldsAt DEF Steady, Placed, SignalOp, Count, Kill, Recount, At
  <2>2. CASE Ends(c, l, "ok") \/ Ends(c, l, "failed")
    BY <2>1, <2>2, EndsMarked
  <2>3. CASE Goes(c, l, "recount")
    BY <2>1, <2>3, GoesMarked
  <2>4. CASE Escalates(c, l)
    BY <2>1, <2>4, EscalatesMarked
  <2>5. CASE Count(c, l) /\ ~Ends(c, l, "failed")
    <3>1. PICK r, n : r = run[c][l] /\ n = run'[c][l]
      OBVIOUS
    <3>2. n.at = "kill" /\ n.filed = r.filed /\ Target5(n, r) /\ Others(c, l)
      BY <2>5, <3>1, CountRun DEF Steady, IInv
    <3>3. l = "user" => n.filed = None
      BY <2>1, <3>1, <3>2, Unfiled DEF Steady
    <3> QED BY <2>1, <3>1, <3>2, <3>3, OneMarked
  <2> QED BY <1>4, <2>2, <2>3, <2>4, <2>5 DEF Kill, Recount
<1>5. ASSUME OpenConn \/ (\E k \in conns : CloseConn(k)) \/ Flush PROVE Marked'
  BY <1>5, SameMarked DEF OpenConn, CloseConn, Flush, escVars
<1> QED BY <1>1, <1>2, <1>3, <1>4, <1>5 DEF NetNext

LEMMA EscMarked == ASSUME Steady, EscNext PROVE Marked'
<1>1. ASSUME NEW c \in Caller, Approve(c) PROVE Marked'
  <2>1. PICK x : /\ Goes(c, "root", x) /\ x \in {"open", "nft", "count", "kill"} /\ acted' = acted
                 /\ run[c]["root"].at # "done"
    BY <1>1, FieldsAt DEF Approve, FirstStep, At, Steady, Level
  <2> QED BY <2>1, GoesMarked DEF Level
<1> QED BY <1>1, RequestMarked, DenyMarked, ReturnMarked, TimeOutMarked, CrashMarked DEF EscNext

LEMMA ProcMarked == ASSUME Steady, ProcNext PROVE Marked'
<1>1. ProcEnv => UNCHANGED <<run, acted>>
  BY DEF ProcEnv, Exit, Spawn, Exec, Becomes, escVars
<1> QED BY <1>1, SameMarked, CaptureMarked, OpenMarked, CheckMarked, PinMarked, SendMarked,
   GraceMarked
        DEF ProcNext

LEMMA SheltersKept ==
  ASSUME Marked, shielded' = shielded, Immune(procs') = Immune(procs) PROVE Shelters
  BY DEF Marked, Sheltered, Shelters

LEMMA SteadyStep == ASSUME IInv, IInv', Marked, [Next]_vars PROVE Steady
<1>1. Evolves /\ Births' /\ setting' = setting
  BY EvolvesStep, SameSetting DEF Marked
<1>2. shielded \in [Caller -> [Level -> SUBSET (1..MaxBorn)]]
  BY DEF IInv, World, Population
<1>3. ASSUME UNCHANGED procVars PROVE Shelters
  <2>1. shielded' = shielded /\ procs' = procs
    BY <1>3 DEF procVars
  <2> QED BY <2>1, SheltersKept
<1>4. ASSUME NEW c \in Caller, NEW l \in Level, Open(c, l) PROVE Shelters
  <2>1. shielded' = [shielded EXCEPT ![c][l] = Immune(procs)] /\ procs' = procs /\ run[c][l].at = "open"
    BY <1>4 DEF Open, At
  <2>2. ASSUME NEW d \in Caller, NEW k \in Level
        PROVE  shielded'[d][k] = IF d = c /\ k = l THEN Immune(procs) ELSE shielded[d][k]
    BY <1>2, <2>1
  <2> QED BY <2>1, <2>2 DEF Shelters, Marked, Sheltered
<1>5. ASSUME NEW c \in Caller, NEW l \in Level, Check(c, l) \/ Pin(c, l) \/ Capture(c)
  PROVE Shelters
  <2>1. UNCHANGED procVars
    BY <1>5 DEF Check, Pin, Capture, procVars
  <2> QED BY <1>3, <2>1
<1>6. ASSUME NEW c \in Caller, NEW l \in Level, Send(c, l) \/ GraceStep(c, l) PROVE Shelters
  BY <1>6, SendEvolves, SheltersKept DEF Marked, Send, GraceStep
<1>7. ASSUME ProcEnv PROVE Shelters
  <2>1. ASSUME NEW t, Becomes(t) PROVE Shelters
    <3>1. /\ procs' = t
          /\ shielded' = [c \in Caller |-> [l \in Level |-> shielded[c][l] \cap Immune(t)]]
      BY <2>1 DEF Becomes
    <3> QED BY <3>1 DEF Shelters
  <2> QED BY <1>7, <2>1 DEF ProcEnv, Exit, Spawn, Exec
<1>8. ASSUME RebootAll PROVE Shelters
  BY <1>8 DEF RebootAll, Shelters
<1>9. Shelters
  BY <1>3, <1>4, <1>5, <1>6, <1>7, <1>8 DEF Next, ProcNext, vars, Level
<1> QED BY <1>1, <1>9 DEF Steady

LEMMA MarkedStep == ASSUME IInv, IInv', Marked, [Next]_vars PROVE Marked'
<1>1. Steady
  BY SteadyStep
<1>2. CASE UNCHANGED vars
  BY <1>1, <1>2, SameMarked DEF vars, escVars
<1> QED BY <1>1, <1>2, EscMarked, ProcMarked, NetMarked, RebootMarked DEF Next

-----------------------------------------------------------------------------
(***************************************************************************)
(* The last signal delivered.                                              *)
(***************************************************************************)

\* What the last signal says.
Aim == OnlyTheNamed /\ ImmuneSpared

LEMMA AimStep == ASSUME IInv, Marked, Aim, [Next]_vars PROVE Aim'
<1>1. CASE hit' = hit
  BY <1>1 DEF Aim, OnlyTheNamed, ImmuneSpared
<1>2. ASSUME NEW c \in Caller, NEW l \in Level, run[c][l].at \in {"send", "grace"},
             Target(run[c][l]) # None, Delivered(c, l, Target(run[c][l]))
      PROVE  Aim'
  BY <1>2, TargetKnown DEF Delivered, Aim, OnlyTheNamed, ImmuneSpared
<1>3. ASSUME NEW c \in Caller, NEW l \in Level, Send(c, l) \/ GraceStep(c, l) PROVE Aim'
  BY <1>1, <1>2, <1>3 DEF Send, GraceStep, At
<1>4. ASSUME ProcNext PROVE Aim'
  <2>1. ProcEnv => hit' = hit
    BY DEF ProcEnv, Exit, Spawn, Exec, Becomes
  <2>2. \A c \in Caller, l \in Level : Open(c, l) \/ Check(c, l) \/ Pin(c, l) \/ Capture(c) => hit' = hit
    BY DEF Open, Check, Pin, Capture, procVars
  <2> QED BY <1>1, <1>3, <1>4, <2>1, <2>2 DEF ProcNext, Level
<1> QED BY <1>1, <1>4 DEF Next, RebootAll, procVars, vars

LEMMA InitMarked == ASSUME Init PROVE Marked /\ Aim
<1>1. setting \in Setting /\ procs \in setting.procs /\ born = Started(procs) /\ hit = None
  BY DEF Init, EscInit, ProcInit
<1>2. Births
  BY <1>1, SettingAssumption DEF Births, Told
<1>3. \A c \in Caller, l \in Level : shielded[c][l] = {}
  BY DEF Init, ProcInit
<1>4. run = [c \in Caller |-> [user |-> Idle, root |-> Idle]]
  BY DEF Init, EscInit
<1>5. \A c \in Caller : run[c]["user"] = Idle /\ run[c]["root"] = Idle
  <2>1. \A c \in Caller : run[c].user = Idle /\ run[c].root = Idle
    BY <1>4
  <2> QED BY <2>1, InitIInv, FieldsAt DEF Level
<1>6. \A c \in Caller : Fate(c)
  BY <1>5, IdleFields DEF Fate
<1>7. \A c \in Caller, l \in Level : run[c][l] = Idle
  BY <1>5 DEF Level
<1>8. \A c \in Caller, l \in Level : Known(c, l) /\ Sheltered(c, l)
  BY <1>3, <1>7, IdleFields DEF Known, Sheltered
<1> QED BY <1>1, <1>2, <1>6, <1>8 DEF Marked, Aim, OnlyTheNamed, ImmuneSpared

-----------------------------------------------------------------------------
(***************************************************************************)
(* The theorems.                                                           *)
(***************************************************************************)

\* The invariant holds in every state.
THEOREM MarksHold == Spec => [](Marked /\ Aim)
<1>1. Init => IInv /\ Marked /\ Aim
  BY InitIInv, InitMarked
<1>2. IInv /\ [Next]_vars => IInv'
  BY NextShaped, StageStep, PopulationStep, NetworkStep DEF IInv, World
<1>3. IInv /\ IInv' /\ Marked /\ Aim /\ [Next]_vars => Marked' /\ Aim'
  BY MarkedStep, AimStep
<1> QED BY <1>1, <1>2, <1>3, PTL DEF Spec

\* pin_signal_target and the pidfd together: whatever exits and takes over the
\* PID while the prompt is open, a signal asked for by start time reaches that
\* process and no other.
THEOREM NamedOnly == Spec => []OnlyTheNamed
<1>1. Aim => OnlyTheNamed
  BY DEF Aim
<1> QED BY <1>1, MarksHold, PTL

\* validate_signal_target is asked again by the helper: no process of the
\* immune list is ever signalled that was one when the helper opened it.
THEOREM ImmunesSpared == Spec => []ImmuneSpared
<1>1. Aim => ImmuneSpared
  BY DEF Aim
<1> QED BY <1>1, MarksHold, PTL

\* terminate_process reports success only of a process that is gone or has
\* been killed, or that became root's and out of the command's reach.
THEOREM TerminatedDoomed == Spec => []TerminatedIsDoomed
<1>1. IInv /\ Marked => TerminatedIsDoomed
  BY FieldsAt DEF Marked, Fate, Gone, Has, TerminatedIsDoomed, Over, Level
<1> QED BY <1>1, Inductive, MarksHold, PTL

\* capture_forensic_evidence files for commands alone that have stopped a
\* process, at either level, and report it.
THEOREM EvidenceTrue == Spec => []EvidenceOfFreezes
<1>1. IInv /\ Marked => EvidenceOfFreezes
  BY FieldsAt DEF Marked, Fate, EvidenceOfFreezes, Level
<1> QED BY <1>1, Inductive, MarksHold, PTL

-----------------------------------------------------------------------------
(***************************************************************************)
(* The contract. Nothing of a command is still to come once it has told    *)
(* because its helper is gone by then (Paired); that a failure is true is  *)
(* Harmless; Earned says the same of a success.                            *)
(***************************************************************************)

\* A runner may succeed that has acted, or has severed, which is counted. What
\* a command still does after its helper's success, it does only then.
Crowning == {"capture", "mark", "write", "unmark"}
Verdict == {"ok", "failed", "cancelled", "timeout"}

Deserves(r, did) ==
  /\ r.at \in Crowning => r.outcome = "ok"
  /\ r.at \in Crowning \cup {"done"} /\ r.outcome = "ok" => did \/ r.op = "sever"
  /\ r.at = "grace" => did
  /\ r.at = "done" => r.outcome \in Verdict

Earned(c) == \A l \in Level : Deserves(run[c][l], acted[c])

Earning == \A c \in Caller : Earned(c)

\* What a step of c makes of the command and its helper.
Busy(r) == r.at \notin {"idle", "done"}
MayAct(c) == acted' \in {acted, [acted EXCEPT ![c] = TRUE]}

Asks(c) ==
  LET u == run[c]["user"]
      n == run'[c]["user"] IN
  /\ u.at \in {"idle", "done"} /\ run[c]["root"].at = "idle"
  /\ Busy(n) /\ n.op \in Op
  /\ acted' = [acted EXCEPT ![c] = FALSE]

Works(c) ==
  LET u == run[c]["user"]
      n == run'[c]["user"] IN
  Busy(u) /\ n.at # "idle" /\ n.op = u.op /\ MayAct(c)

Dies(c) ==
  Busy(run[c]["user"]) /\ run'[c]["user"] = Idle /\ UNCHANGED acted

Outlives(c) ==
  /\ run[c]["user"].at = "idle" /\ run'[c]["user"].at = "idle" /\ run[c]["root"].at # "idle"
  /\ \/ run'[c]["root"].at # "idle" /\ MayAct(c)
     \/ UNCHANGED acted

Turn(c) == OtherCallers(c) /\ (Asks(c) \/ Works(c) \/ Dies(c) \/ Outlives(c))

-----------------------------------------------------------------------------
(***************************************************************************)
(* What c does is a step of the contract.                                  *)
(***************************************************************************)

\* The two ways to name a runner, for any table of runners.
LEMMA FieldsOf ==
  ASSUME NEW R \in Runs, NEW c \in Caller
  PROVE  R[c].user = R[c]["user"] /\ R[c].root = R[c]["root"]
  BY SMTT(30) DEF Runs, Level

\* The part of c in the abstract state.
Part(u, h, p, a, o) ==
  /\ p = IF u.at = "done" THEN "told" ELSE IF u.at # "idle" THEN "working"
         ELSE IF h.at # "idle" THEN "orphaned" ELSE "idle"
  /\ a = IF u.at = "idle" THEN None ELSE u.op
  /\ o = IF u.at = "done" THEN u.outcome ELSE None

LEMMA PartsNow ==
  ASSUME IInv, NEW c \in Caller
  PROVE  Part(run[c]["user"], run[c]["root"], Phase(c), Asked(c), Answer(c))
  BY FieldsOf DEF IInv, Shaped, Part, Phase, Asked, Answer, Over

LEMMA PartsThen ==
  ASSUME IInv', NEW c \in Caller
  PROVE  Part(run'[c]["user"], run'[c]["root"], Phase(c)', Asked(c)', Answer(c)')
  BY FieldsOf DEF IInv, Shaped, Part, Phase, Asked, Answer, Over

LEMMA TurnOfOthers ==
  ASSUME IInv, IInv', NEW c \in Caller, OtherCallers(c), NEW d \in Caller \ {c}
  PROVE  Phase(d)' = Phase(d) /\ Asked(d)' = Asked(d) /\ Answer(d)' = Answer(d)
<1>1. run'[d]["user"] = run[d]["user"] /\ run'[d]["root"] = run[d]["root"]
  BY DEF OtherCallers, Level
<1> QED BY <1>1, PartsNow, PartsThen DEF Part

\* The refinement mapping moves at c alone.
LEMMA PartsMove ==
  ASSUME IInv, IInv', NEW c \in Caller, OtherCallers(c)
  PROVE  /\ [d \in Caller |-> Phase(d)]' = [[d \in Caller |-> Phase(d)] EXCEPT ![c] = Phase(c)']
         /\ [d \in Caller |-> Asked(d)]' = [[d \in Caller |-> Asked(d)] EXCEPT ![c] = Asked(c)']
         /\ [d \in Caller |-> Answer(d)]' = [[d \in Caller |-> Answer(d)] EXCEPT ![c] = Answer(c)']
<1>1. [d \in Caller |-> Phase(d)]' = [[d \in Caller |-> Phase(d)] EXCEPT ![c] = Phase(c)']
  BY TurnOfOthers
<1>2. [d \in Caller |-> Asked(d)]' = [[d \in Caller |-> Asked(d)] EXCEPT ![c] = Asked(c)']
  BY TurnOfOthers
<1>3. [d \in Caller |-> Answer(d)]' = [[d \in Caller |-> Answer(d)] EXCEPT ![c] = Answer(c)']
  BY TurnOfOthers
<1> QED BY <1>1, <1>2, <1>3

\* A told outcome is true.
LEMMA ToldTrue ==
  ASSUME Guards', IInv', NEW c \in Caller, Earned(c)', run'[c]["user"].at = "done"
  PROVE  LET n == run'[c]["user"] IN
         /\ n.outcome \in Verdict
         /\ n.outcome = "ok" => acted'[c] \/ n.op = "sever"
         /\ n.outcome \in {"failed", "cancelled"} => ~acted'[c]
<1>1. Harmless(c)'
  BY DEF Guards, Guarded
<1> QED BY <1>1 DEF Harmless, Earned, Deserves, Verdict, Level

LEMMA TurnIsStep ==
  ASSUME IInv, IInv', Guards', NEW c \in Caller, Earned(c)', Turn(c)
  PROVE  [Contract!Next]_(Contract!contractVars)
<1> DEFINE u == run[c]["user"]
           n == run'[c]["user"]
           h == run[c]["root"]
           k == run'[c]["root"]
<1>0. OtherCallers(c)
  BY DEF Turn
<1>1. Part(u, h, Phase(c), Asked(c), Answer(c)) /\ Part(n, k, Phase(c)', Asked(c)', Answer(c)')
  BY PartsNow, PartsThen
<1>2. CASE Asks(c)
  <2>1. Phase(c) \in {"idle", "told"} /\ Phase(c)' = "working" /\ Answer(c)' = None
    BY <1>1, <1>2 DEF Asks, Part, Busy
  <2>2. Asked(c)' \in Op
    BY <1>1, <1>2 DEF Asks, Part, Busy
  <2>3. Contract!Ask(c)
    BY <1>0, <1>2, <2>1, <2>2, PartsMove DEF Contract!Ask, Asks
  <2> QED BY <2>3 DEF Contract!Next
<1>3. CASE Works(c) /\ Busy(n)
  <2>1. /\ Phase(c) = "working" /\ Phase(c)' = Phase(c) /\ Asked(c)' = Asked(c)
        /\ Answer(c)' = Answer(c)
    BY <1>1, <1>3 DEF Works, Part, Busy
  <2>2. /\ UNCHANGED [d \in Caller |-> Phase(d)] /\ UNCHANGED [d \in Caller |-> Asked(d)]
        /\ UNCHANGED [d \in Caller |-> Answer(d)]
    BY <1>0, <2>1, TurnOfOthers
  <2>3. CASE UNCHANGED acted
    BY <2>2, <2>3 DEF Contract!contractVars
  <2>4. CASE acted' = [acted EXCEPT ![c] = TRUE]
    <3>1. Contract!Act(c)
      BY <2>1, <2>2, <2>4 DEF Contract!Act
    <3> QED BY <3>1 DEF Contract!Next
  <2> QED BY <1>3, <2>3, <2>4 DEF Works, MayAct
<1>4. CASE Works(c) /\ n.at = "done"
  <2>1. Phase(c) = "working" /\ Phase(c)' = "told" /\ Answer(c)' = n.outcome
    BY <1>1, <1>4 DEF Works, Part, Busy
  <2>2. Asked(c)' = Asked(c) /\ Asked(c) = n.op
    BY <1>1, <1>4 DEF Works, Part, Busy
  <2>3. UNCHANGED [d \in Caller |-> Asked(d)]
    BY <1>0, <2>2, TurnOfOthers
  <2>4. PICK o \in Verdict :
          /\ Answer(c)' = o
          /\ o = "ok" => acted'[c] \/ Asked(c) \in {"sever"}
          /\ o \in {"failed", "cancelled"} => ~acted'[c]
    BY <1>4, <2>1, <2>2, ToldTrue
  <2>5. /\ [d \in Caller |-> Answer(d)]' = [[d \in Caller |-> Answer(d)] EXCEPT ![c] = o]
        /\ o = "ok" => acted'[c] \/ [d \in Caller |-> Asked(d)][c] \in {"sever"}
    BY <1>0, <2>4, PartsMove
  <2>6. /\ [d \in Caller |-> Phase(d)]' = [[d \in Caller |-> Phase(d)] EXCEPT ![c] = "told"]
        /\ [d \in Caller |-> Phase(d)][c] = "working"
    BY <1>0, <2>1, PartsMove
  <2>7. acted' \in {acted, [acted EXCEPT ![c] = TRUE]}
    BY <1>4 DEF Works, MayAct
  <2>8. Contract!Tell(c)
    BY <2>3, <2>4, <2>5, <2>6, <2>7, Zenon DEF Contract!Tell, Verdict
  <2> QED BY <2>8 DEF Contract!Next
<1>5. CASE Dies(c)
  <2>1. n.at = "idle"
    BY <1>5, IdleFields DEF Dies
  <2>2. /\ Phase(c) = "working" /\ Phase(c)' \in {"orphaned", "idle"} /\ Asked(c)' = None
        /\ Answer(c)' = Answer(c)
    BY <1>1, <1>5, <2>1 DEF Dies, Part, Busy
  <2>3. UNCHANGED [d \in Caller |-> Answer(d)]
    BY <1>0, <2>2, TurnOfOthers
  <2>4. Contract!Die(c)
    BY <1>0, <1>5, <2>2, <2>3, PartsMove DEF Contract!Die, Dies
  <2> QED BY <2>4 DEF Contract!Next
<1>6. CASE Outlives(c)
  <2>1. /\ Phase(c) = "orphaned" /\ Asked(c)' = Asked(c) /\ Answer(c)' = Answer(c)
        /\ Phase(c)' = IF k.at # "idle" THEN "orphaned" ELSE "idle"
    BY <1>1, <1>6 DEF Outlives, Part
  <2>2. /\ UNCHANGED [d \in Caller |-> Asked(d)] /\ UNCHANGED [d \in Caller |-> Answer(d)]
    BY <1>0, <2>1, TurnOfOthers
  <2>3. CASE k.at # "idle"
    <3>1. UNCHANGED [d \in Caller |-> Phase(d)]
      BY <1>0, <2>1, <2>3, TurnOfOthers
    <3>2. CASE UNCHANGED acted
      BY <2>2, <3>1, <3>2 DEF Contract!contractVars
    <3>3. CASE acted' = [acted EXCEPT ![c] = TRUE]
      <4>1. Contract!Act(c)
        BY <2>1, <2>2, <3>1, <3>3 DEF Contract!Act
      <4> QED BY <4>1 DEF Contract!Next
    <3> QED BY <1>6, <3>2, <3>3 DEF Outlives, MayAct
  <2>4. CASE k.at = "idle"
    <3>1. Contract!Finish(c)
      BY <1>0, <1>6, <2>1, <2>2, <2>4, PartsMove DEF Contract!Finish, Outlives
    <3> QED BY <3>1 DEF Contract!Next
  <2> QED BY <2>3, <2>4
<1> QED BY <1>2, <1>3, <1>4, <1>5, <1>6 DEF Turn, Works, Busy

LEMMA StillIsStep ==
  ASSUME IInv, UNCHANGED <<run, acted>> PROVE UNCHANGED Contract!contractVars
<1>1. \A c \in Caller : Phase(c)' = Phase(c) /\ Asked(c)' = Asked(c) /\ Answer(c)' = Answer(c)
  BY DEF Phase, Asked, Answer, Over
<1> QED BY <1>1 DEF Contract!contractVars

LEMMA RebootIsStep ==
  ASSUME IInv', RebootAll PROVE Contract!Next
<1>1. \A c \in Caller : run'[c]["user"] = Idle /\ run'[c]["root"] = Idle
  BY RebootRun DEF Level
<1>2. \A c \in Caller : Phase(c)' = "idle" /\ Asked(c)' = None /\ Answer(c)' = None
  BY <1>1, PartsThen, IdleFields DEF Part
<1>3. Contract!Restart
  BY <1>2 DEF Contract!Restart, RebootAll, Reboot
<1> QED BY <1>3 DEF Contract!Next

-----------------------------------------------------------------------------
(***************************************************************************)
(* Each action is such a turn, and keeps what is earned.                   *)
(***************************************************************************)

LEMMA EarnedBoth ==
  ASSUME NEW c \in Caller, Deserves(run'[c]["user"], acted'[c]), Deserves(run'[c]["root"], acted'[c])
  PROVE  Earned(c)'
  BY DEF Earned, Level

LEMMA EarnedNow ==
  ASSUME IInv, Earning, NEW c \in Caller
  PROVE  /\ \A l \in Level : Deserves(run[c][l], acted[c])
         /\ acted[c] \in BOOLEAN /\ acted \in [Caller -> BOOLEAN] /\ Shaped
         /\ Paired(run[c]["user"], run[c]["root"])
         /\ \A l \in Level : Placed(run[c][l])
  BY Dotted DEF Earning, Earned, IInv, World, Stage, Shaped, Level

\* A runner that stays while its command has an effect or none.
LEMMA DeservesMore ==
  ASSUME IInv, NEW c \in Caller, NEW r, Deserves(r, acted[c]), MayAct(c)
  PROVE  Deserves(r, acted'[c])
<1>1. acted \in [Caller -> BOOLEAN]
  BY DEF IInv, World, Stage
<1>2. acted[c] => acted'[c]
  BY <1>1 DEF MayAct
<1> QED BY <1>2 DEF Deserves

LEMMA IdleDeserves == ASSUME NEW a PROVE Deserves(Idle, a)
  BY IdleFields DEF Deserves, Crowning

\* A step of one runner that stays a runner.
LEMMA StepTurn ==
  ASSUME IInv, Earning, NEW c \in Caller, NEW l \in Level, Others(c, l),
         Busy(run[c][l]), run'[c][l].at # "idle", run'[c][l].op = run[c][l].op, MayAct(c),
         Deserves(run'[c][l], acted'[c])
  PROVE  Turn(c) /\ Earned(c)'
<1>1. OtherCallers(c)
  BY OthersAll
<1>2. CASE l = "user"
  <2>1. run'[c]["root"] = run[c]["root"]
    BY <1>2 DEF Others, Level
  <2>2. Deserves(run'[c]["root"], acted'[c])
    BY <2>1, EarnedNow, DeservesMore DEF Level
  <2>3. Works(c)
    BY <1>2 DEF Works
  <2> QED BY <1>1, <1>2, <2>2, <2>3, EarnedBoth DEF Turn
<1>3. CASE l = "root"
  <2>1. run'[c]["user"] = run[c]["user"]
    BY <1>3 DEF Others, Level
  <2>2. Deserves(run'[c]["user"], acted'[c])
    BY <2>1, EarnedNow, DeservesMore DEF Level
  <2>3. run[c]["user"].at \in {"await", "overdue", "idle"}
    BY <1>3, EarnedNow DEF Paired, Busy
  <2>4. Works(c) \/ Outlives(c)
    BY <1>3, <2>1, <2>3 DEF Works, Outlives, Busy
  <2> QED BY <1>1, <1>3, <2>2, <2>4, EarnedBoth DEF Turn
<1> QED BY <1>2, <1>3 DEF Level

LEMMA GoesTurn ==
  ASSUME IInv, Earning, NEW c \in Caller, NEW l \in Level, NEW x, Goes(c, l, x), Busy(run[c][l]),
         x \in Before \cup {"write", "done"}, MayAct(c),
         x \in {"write", "done"} => run[c][l].at \in Crowning
  PROVE  Turn(c) /\ Earned(c)'
<1>1. /\ run'[c][l].at = x /\ Core(run'[c][l], run[c][l]) /\ Others(c, l)
      /\ run'[c][l].outcome = run[c][l].outcome
  BY EarnedNow, GoesRun
<1>2. Deserves(run[c][l], acted'[c])
  BY EarnedNow, DeservesMore
<1>3. Deserves(run'[c][l], acted'[c])
  BY <1>1, <1>2, EarnedNow DEF Deserves, Core, Target5, Before, Crowning, Verdict
<1> QED BY <1>1, <1>3, StepTurn DEF Core, Target5, Before

LEMMA EndsTurn ==
  ASSUME IInv, Earning, NEW c \in Caller, NEW l \in Level, NEW o, Ends(c, l, o), Busy(run[c][l]),
         MayAct(c), o \in Verdict, o = "ok" => acted'[c] \/ run[c][l].op = "sever"
  PROVE  Turn(c) /\ Earned(c)'
<1>1. /\ run'[c][l].at = "done" /\ Core(run'[c][l], run[c][l]) /\ Others(c, l)
      /\ run'[c][l].outcome = o
  BY EarnedNow, EndsRun
<1>3. Deserves(run'[c][l], acted'[c])
  BY <1>1 DEF Deserves, Core, Target5, Crowning
<1> QED BY <1>1, <1>3, StepTurn DEF Core, Target5

LEMMA WaitsTurn ==
  ASSUME IInv, Earning, NEW c \in Caller, Waits(c), Busy(run[c]["user"]), UNCHANGED acted
  PROVE  Turn(c) /\ Earned(c)'
<1>2. Deserves(run'[c]["user"], acted'[c])
  BY DEF Deserves, Waits, Crowning
<1>3. Deserves(run'[c]["root"], acted'[c])
  BY DEF Deserves, Waits, Fresh, Crowning
<1>4. Works(c) /\ OtherCallers(c)
  BY DEF Works, Waits, Core, Target5, MayAct
<1> QED BY <1>2, <1>3, <1>4, EarnedBoth DEF Turn

LEMMA EscalatesTurn ==
  ASSUME IInv, Earning, NEW c \in Caller, NEW l \in Level, Escalates(c, l), Busy(run[c][l]),
         UNCHANGED acted
  PROVE  Turn(c) /\ Earned(c)'
<1>1. MayAct(c) /\ "failed" \in Verdict /\ "failed" # "ok"
  BY DEF MayAct, Verdict
<1>2. CASE Ends(c, l, "failed")
  BY <1>1, <1>2, EndsTurn
<1>3. CASE l = "user" /\ Waits(c)
  BY <1>3, WaitsTurn
<1> QED BY <1>2, <1>3, EarnedNow, EscalatesRun

LEMMA RequestTurn ==
  ASSUME IInv, Earning, NEW c \in Caller, NEW job \in setting.jobs, Request(c, job)
  PROVE  Turn(c) /\ Earned(c)'
<1>1. /\ run[c]["user"].at \in {"idle", "done"} /\ run[c]["root"].at = "idle"
      /\ acted' = [acted EXCEPT ![c] = FALSE]
  BY Dotted DEF Request, Quiet
<1>2. /\ Fresh(run'[c]["user"], FirstStep(job.op), job.op, job.arg, job.want)
      /\ run'[c]["root"] = Idle /\ OtherCallers(c) /\ job.op \in Op
  BY RequestRun DEF Command
<1>3. Deserves(run'[c]["user"], acted'[c]) /\ Busy(run'[c]["user"])
  BY <1>2 DEF Deserves, Crowning, Fresh, FirstStep, Busy
<1>4. Deserves(run'[c]["root"], acted'[c])
  BY <1>2, IdleDeserves
<1>5. Asks(c)
  BY <1>1, <1>2, <1>3 DEF Asks, Fresh
<1> QED BY <1>2, <1>3, <1>4, <1>5, EarnedBoth DEF Turn

LEMMA ApproveTurn ==
  ASSUME IInv, Earning, NEW c \in Caller, Approve(c) PROVE Turn(c) /\ Earned(c)'
<1>1. PICK x : /\ Goes(c, "root", x) /\ x \in {"open", "nft", "count", "kill"}
               /\ run[c]["root"].at = "prompt"
  BY Dotted DEF Approve, FirstStep, At
<1>2. MayAct(c) /\ Busy(run[c]["root"])
  BY <1>1 DEF MayAct, Approve, Busy
<1> QED BY <1>1, <1>2, GoesTurn DEF Before, Level

LEMMA DenyTurn ==
  ASSUME IInv, Earning, NEW c \in Caller, Deny(c) PROVE Turn(c) /\ Earned(c)'
<1>1. /\ OtherCallers(c) /\ run'[c]["root"] = Idle /\ Core(run'[c]["user"], run[c]["user"])
      /\ run[c]["root"].at = "prompt" /\ UNCHANGED acted
  BY DenyRun, Dotted DEF Answered, Deny, At
<1>2. Deserves(run'[c]["root"], acted'[c])
  BY <1>1, IdleDeserves
<1>3. CASE run'[c]["user"] = run[c]["user"] /\ run[c]["user"].at # "await"
  <2>1. Deserves(run'[c]["user"], acted'[c])
    BY <1>1, <1>3, EarnedNow DEF Level
  <2>2. run[c]["user"].at = "idle"
    BY <1>1, <1>3, EarnedNow DEF Paired
  <2>3. Outlives(c)
    BY <1>1, <1>3, <2>2 DEF Outlives
  <2> QED BY <1>1, <1>2, <2>1, <2>3, EarnedBoth DEF Turn
<1>4. CASE /\ run'[c]["user"].at = "done" /\ run'[c]["user"].outcome = "cancelled"
           /\ run[c]["user"].at = "await"
  <2>1. Deserves(run'[c]["user"], acted'[c])
    BY <1>4 DEF Deserves, Crowning, Verdict
  <2>2. Works(c)
    BY <1>1, <1>4 DEF Works, Busy, Core, Target5, MayAct
  <2> QED BY <1>1, <1>2, <2>1, <2>2, EarnedBoth DEF Turn
<1> QED BY <1>3, <1>4, DenyRun

LEMMA ReturnTurn ==
  ASSUME IInv, Earning, NEW c \in Caller, Return(c) PROVE Turn(c) /\ Earned(c)'
<1> DEFINE u == run[c]["user"]
           n == run'[c]["user"]
           h == run[c]["root"]
<1>1. /\ OtherCallers(c) /\ run'[c]["root"] = Idle /\ Core(n, u) /\ h.at = "done"
      /\ UNCHANGED acted /\ Paired(u, h) /\ Deserves(u, acted'[c]) /\ Deserves(h, acted'[c])
  BY ReturnRun, EarnedNow DEF Answered, Return, Level
<1>2. Deserves(run'[c]["root"], acted'[c])
  BY <1>1, IdleDeserves
<1>3. CASE n = u /\ u.at # "await"
  <2>1. Works(c) \/ Outlives(c)
    BY <1>1, <1>3 DEF Works, Outlives, Busy, Paired, MayAct
  <2> QED BY <1>1, <1>2, <1>3, <2>1, EarnedBoth DEF Turn
<1>4. CASE u.at = "overdue" /\ n.at = "done" /\ n.outcome = "timeout"
  <2>1. Deserves(n, acted'[c])
    BY <1>4 DEF Deserves, Crowning, Verdict
  <2>2. Works(c)
    BY <1>1, <1>4 DEF Works, Busy, Core, Target5, MayAct
  <2> QED BY <1>1, <1>2, <2>1, <2>2, EarnedBoth DEF Turn
<1>5. CASE u.at = "await" /\ n.at = AfterHelper(u, h.outcome) /\ n.outcome = h.outcome
  <2>1. n.at \in Crowning => n.outcome = "ok"
    BY <1>5 DEF AfterHelper, Crowning
  <2>2. n.at \in Crowning \cup {"recount", "done"}
    BY <1>5 DEF AfterHelper, Crowning
  <2>3. n.op = h.op
    BY <1>1, <1>5 DEF Paired, Core, Target5
  <2>4. Deserves(n, acted'[c])
    BY <1>1, <1>5, <2>1, <2>2, <2>3 DEF Deserves, Crowning
  <2>5. Works(c)
    BY <1>1, <1>5, <2>2 DEF Works, Busy, Core, Target5, MayAct, Crowning
  <2> QED BY <1>1, <1>2, <2>4, <2>5, EarnedBoth DEF Turn
<1> QED BY <1>3, <1>4, <1>5, ReturnRun

LEMMA TimeOutTurn ==
  ASSUME IInv, Earning, NEW c \in Caller, TimeOut(c) PROVE Turn(c) /\ Earned(c)'
<1>1. /\ OtherCallers(c) /\ UNCHANGED acted /\ run[c]["user"].at = "await"
      /\ run'[c]["user"].op = run[c]["user"].op
      /\ run'[c]["user"].at \in {"done", "overdue"}
      /\ run'[c]["user"].at = "done" => run'[c]["user"].outcome = "timeout"
      /\ run'[c]["root"] \in {Idle, run[c]["root"]}
  BY TimeOutRun DEF TimeOut, Core, Target5
<1>2. Deserves(run'[c]["user"], acted'[c])
  BY <1>1 DEF Deserves, Crowning, Verdict
<1>3. Deserves(run'[c]["root"], acted'[c])
  BY <1>1, IdleDeserves, EarnedNow DEF Level
<1>4. Works(c)
  BY <1>1 DEF Works, Busy, MayAct
<1> QED BY <1>1, <1>2, <1>3, <1>4, EarnedBoth DEF Turn

LEMMA CrashTurn ==
  ASSUME IInv, Earning, NEW c \in Caller, Crash(c) PROVE Turn(c) /\ Earned(c)'
<1>1. /\ run'[c]["user"] = Idle /\ Others(c, "user") /\ UNCHANGED acted
      /\ Busy(run[c]["user"])
  BY CrashRun, Dotted DEF Crash, Busy
<1>2. run'[c]["root"] = run[c]["root"] /\ OtherCallers(c)
  BY <1>1, OthersAll DEF Others, Level
<1>3. Deserves(run'[c]["user"], acted'[c]) /\ Deserves(run'[c]["root"], acted'[c])
  BY <1>1, <1>2, IdleDeserves, EarnedNow DEF Level
<1>4. Dies(c)
  BY <1>1 DEF Dies
<1> QED BY <1>2, <1>3, <1>4, EarnedBoth DEF Turn

\* The steps of a signal.
LEMMA SignalTurn ==
  ASSUME IInv, Earning, NEW c \in Caller, NEW l \in Level,
         Open(c, l) \/ Check(c, l) \/ Pin(c, l) \/ Send(c, l) \/ GraceStep(c, l)
  PROVE  Turn(c) /\ Earned(c)'
<1>0. /\ Busy(run[c][l]) /\ Shaped /\ Deserves(run[c][l], acted[c])
      /\ "failed" \in Verdict /\ "ok" \in Verdict
      /\ acted \in [Caller -> BOOLEAN]
  BY EarnedNow DEF Open, Check, Pin, Send, GraceStep, At, Busy, Verdict
<1>1. CASE Open(c, l)
  <2>1. UNCHANGED acted /\ MayAct(c)
    BY <1>1 DEF Open, MayAct
  <2>2. /\ Others(c, l) /\ run'[c][l].at = "check" /\ run'[c][l].op = run[c][l].op
    BY <1>0, <1>1, OpenRun
  <2>3. Deserves(run'[c][l], acted'[c])
    BY <2>2 DEF Deserves, Crowning
  <2> QED BY <1>0, <2>1, <2>2, <2>3, StepTurn
<1>2. CASE Check(c, l)
  <2>1. UNCHANGED acted /\ MayAct(c) /\ (Ends(c, l, "failed") \/ Goes(c, l, "pin"))
    BY <1>2 DEF Check, MayAct
  <2> QED BY <1>0, <2>1, EndsTurn, GoesTurn DEF Before
<1>3. CASE Pin(c, l)
  <2>1. UNCHANGED acted /\ MayAct(c)
    BY <1>3 DEF Pin, MayAct
  <2>2. CASE Ends(c, l, "failed")
    BY <1>0, <2>1, <2>2, EndsTurn
  <2>3. CASE ~Ends(c, l, "failed")
    <3>1. /\ Others(c, l) /\ run'[c][l].at = "send" /\ run'[c][l].op = run[c][l].op
      BY <1>0, <1>3, <2>3, PinRun
    <3>2. Deserves(run'[c][l], acted'[c])
      BY <3>1 DEF Deserves, Crowning
    <3> QED BY <1>0, <2>1, <3>1, <3>2, StepTurn
  <2> QED BY <2>2, <2>3
<1>4. CASE Send(c, l)
  <2>1. CASE Ends(c, l, "failed") /\ UNCHANGED acted
    <3>1. MayAct(c)
      BY <2>1 DEF MayAct
    <3> QED BY <1>0, <2>1, <3>1, EndsTurn
  <2>2. CASE Escalates(c, l) /\ UNCHANGED acted
    BY <1>0, <2>2, EscalatesTurn
  <2>3. CASE /\ run' = [run EXCEPT ![c][l].at = AfterSignal(run[c][l].op, l), ![c][l].outcome = "ok"]
             /\ acted' = [acted EXCEPT ![c] = TRUE]
    <3>1. /\ Others(c, l) /\ run'[c][l].at = AfterSignal(run[c][l].op, l)
          /\ run'[c][l].outcome = "ok" /\ run'[c][l].op = run[c][l].op
      BY <1>0, <2>3, SentRun DEF Core, Target5
    <3>2. MayAct(c) /\ acted'[c]
      BY <1>0, <2>3 DEF MayAct
    <3>3. Deserves(run'[c][l], acted'[c]) /\ run'[c][l].at # "idle"
      BY <3>1, <3>2 DEF Deserves, Crowning, AfterSignal, Verdict
    <3> QED BY <1>0, <3>1, <3>2, <3>3, StepTurn
  <2> QED BY <1>4, <2>1, <2>2, <2>3 DEF Send, Delivered
<1>5. CASE GraceStep(c, l)
  <2>1. acted[c]
    BY <1>0, <1>5 DEF GraceStep, At, Deserves
  <2>2. CASE Ends(c, l, "ok") /\ UNCHANGED acted
    <3>1. MayAct(c) /\ acted'[c]
      BY <2>1, <2>2 DEF MayAct
    <3> QED BY <1>0, <2>2, <3>1, EndsTurn
  <2>3. CASE run' = [run EXCEPT ![c][l].tries = @ + 1] /\ UNCHANGED acted
    <3>1. MayAct(c) /\ acted'[c]
      BY <2>1, <2>3 DEF MayAct
    <3>2. /\ Others(c, l) /\ run'[c][l].at = run[c][l].at
          /\ run'[c][l].outcome = run[c][l].outcome /\ run'[c][l].op = run[c][l].op
      BY <1>0, <2>3, TriedRun DEF Core, Target5
    <3>3. Deserves(run'[c][l], acted'[c]) /\ run'[c][l].at # "idle"
      BY <1>0, <2>3, <3>2 DEF Deserves, Busy
    <3> QED BY <1>0, <3>1, <3>2, <3>3, StepTurn
  <2>4. CASE Ends(c, l, "ok") /\ acted' = [acted EXCEPT ![c] = TRUE]
    <3>1. MayAct(c) /\ acted'[c]
      BY <1>0, <2>4 DEF MayAct
    <3> QED BY <1>0, <2>4, <3>1, EndsTurn
  <2> QED BY <1>5, <2>2, <2>3, <2>4 DEF GraceStep, Delivered
<1> QED BY <1>1, <1>2, <1>3, <1>4, <1>5

LEMMA CaptureTurn ==
  ASSUME IInv, Earning, NEW c \in Caller, Capture(c) PROVE Turn(c) /\ Earned(c)'
<1>1. /\ Busy(run[c]["user"]) /\ run[c]["user"].at = "capture" /\ UNCHANGED acted /\ MayAct(c)
      /\ Shaped /\ Deserves(run[c]["user"], acted[c])
  BY EarnedNow, Dotted DEF Capture, At, Busy, MayAct, Level
<1>2. /\ Others(c, "user") /\ run'[c]["user"].at = "done"
      /\ run'[c]["user"].outcome = run[c]["user"].outcome
      /\ run'[c]["user"].op = run[c]["user"].op
  BY <1>1, CaptureRun DEF Core, Target5
<1>3. Deserves(run'[c]["user"], acted'[c])
  BY <1>1, <1>2 DEF Deserves, Crowning, Verdict
<1> QED BY <1>1, <1>2, <1>3, StepTurn DEF Level

\* The steps of a blackout, a quarantine and a sever.
LEMMA NetworkTurn ==
  ASSUME IInv, Earning, NEW c \in Caller,
         \/ NftAsUser(c) \/ NftAsRoot(c) \/ NftFails(c)
         \/ Mark(c) \/ WriteMarker(c) \/ Unmark(c)
  PROVE  Turn(c) /\ Earned(c)'
<1>0. /\ acted \in [Caller -> BOOLEAN] /\ "ok" \in Verdict
      /\ run[c].user = run[c]["user"] /\ run[c].root = run[c]["root"]
      /\ Deserves(run[c]["user"], acted[c])
  BY EarnedNow, Dotted DEF Verdict, Level
<1>1. CASE NftAsUser(c)
  BY <1>1, EscalatesTurn DEF NftAsUser, At, Busy, Level
<1>2. CASE NftFails(c)
  BY <1>2, EscalatesTurn DEF NftFails, At, Busy, Level
<1>3. CASE NftAsRoot(c)
  <2>1. /\ MayAct(c) /\ acted'[c] /\ Busy(run[c]["root"]) /\ Ends(c, "root", "ok")
    BY <1>0, <1>3 DEF NftAsRoot, At, Busy, MayAct
  <2> QED BY <1>0, <2>1, EndsTurn DEF Level
<1>4. CASE Mark(c) \/ WriteMarker(c) \/ Unmark(c)
  <2>1. PICK x \in {"write", "done"} : Goes(c, "user", x)
    BY <1>4 DEF Mark, WriteMarker, Unmark, Leaves
  <2>2. MayAct(c) /\ run[c]["user"].at \in Crowning /\ Busy(run[c]["user"])
    BY <1>0, <1>4 DEF Mark, WriteMarker, Unmark, At, MayAct, Crowning, Busy
  <2> QED BY <2>1, <2>2, GoesTurn DEF Level
<1> QED BY <1>1, <1>2, <1>3, <1>4

LEMMA SeverTurn ==
  ASSUME IInv, Earning, NEW c \in Caller, NEW l \in Level,
         Count(c, l) \/ Kill(c, l) \/ Recount(c, l)
  PROVE  Turn(c) /\ Earned(c)'
<1>0. /\ Busy(run[c][l]) /\ Shaped /\ run[c][l].op = "sever" /\ UNCHANGED acted /\ MayAct(c)
      /\ "failed" \in Verdict /\ "ok" \in Verdict
  BY EarnedNow DEF Count, Kill, Recount, At, Busy, MayAct, Placed, Verdict
<1>1. CASE Count(c, l) /\ ~Ends(c, l, "failed")
  <2>1. Others(c, l) /\ run'[c][l].at = "kill" /\ run'[c][l].op = run[c][l].op
    BY <1>0, <1>1, CountRun DEF Target5
  <2>2. Deserves(run'[c][l], acted'[c])
    BY <2>1 DEF Deserves, Crowning
  <2> QED BY <1>0, <2>1, <2>2, StepTurn
<1>2. CASE Ends(c, l, "failed") \/ Ends(c, l, "ok")
  BY <1>0, <1>2, EndsTurn
<1>3. CASE Goes(c, l, "recount")
  BY <1>0, <1>3, GoesTurn DEF Before
<1>4. CASE Escalates(c, l)
  BY <1>0, <1>4, EscalatesTurn
<1> QED BY <1>1, <1>2, <1>3, <1>4 DEF Kill, Recount

-----------------------------------------------------------------------------
(***************************************************************************)
(* Every step keeps Earning and is one of the contract.                    *)
(***************************************************************************)

LEMMA OneTurn ==
  ASSUME IInv, IInv', Guards', Earning, NEW c \in Caller, Turn(c), Earned(c)',
         acted' \in {acted, [acted EXCEPT ![c] = acted'[c]]}
  PROVE  Earning' /\ [Contract!Next]_(Contract!contractVars)
<1>1. ASSUME NEW d \in Caller, d # c PROVE Earned(d)'
  <2>1. acted'[d] = acted[d] /\ \A l \in Level : run'[d][l] = run[d][l]
    BY <1>1, EarnedNow DEF Turn, OtherCallers
  <2> QED BY <2>1, EarnedNow DEF Earned
<1> QED BY <1>1, TurnIsStep DEF Earning

LEMMA TurnActs ==
  ASSUME IInv, NEW c \in Caller, Turn(c)
  PROVE  acted' \in {acted, [acted EXCEPT ![c] = acted'[c]]}
<1>1. acted \in [Caller -> BOOLEAN]
  BY DEF IInv, World, Stage
<1>2. \A x \in BOOLEAN : acted' = [acted EXCEPT ![c] = x] => acted'[c] = x
  BY <1>1
<1> QED BY <1>2 DEF Turn, Asks, Works, Dies, Outlives, MayAct

LEMMA ContractStep ==
  ASSUME IInv, IInv', Guards', Earning, [Next]_vars
  PROVE  Earning' /\ [Contract!Next]_(Contract!contractVars)
<1>1. ASSUME NEW c \in Caller, Turn(c) /\ Earned(c)'
      PROVE  Earning' /\ [Contract!Next]_(Contract!contractVars)
  BY <1>1, OneTurn, TurnActs
<1>2. ASSUME UNCHANGED <<run, acted>>
      PROVE  Earning' /\ [Contract!Next]_(Contract!contractVars)
  BY <1>2, StillIsStep DEF Earning, Earned
<1>3. CASE EscNext
  BY <1>1, <1>3, RequestTurn, ApproveTurn, DenyTurn, ReturnTurn, TimeOutTurn, CrashTurn DEF EscNext
<1>4. CASE ProcNext
  <2>1. ProcEnv => UNCHANGED <<run, acted>>
    BY DEF ProcEnv, Exit, Spawn, Exec, Becomes, escVars
  <2> QED BY <1>1, <1>2, <1>4, <2>1, CaptureTurn, SignalTurn DEF ProcNext
<1>5. CASE NetNext
  <2>1. OpenConn \/ (\E k \in conns : CloseConn(k)) \/ Flush => UNCHANGED <<run, acted>>
    BY DEF OpenConn, CloseConn, Flush, escVars
  <2> QED BY <1>1, <1>2, <1>5, <2>1, NetworkTurn, SeverTurn DEF NetNext
<1>6. CASE RebootAll
  <2>1. \A c \in Caller, l \in Level : Deserves(run'[c][l], acted'[c])
    BY <1>6, RebootRun, IdleDeserves
  <2> QED BY <1>6, <2>1, RebootIsStep DEF Earning, Earned
<1>7. CASE UNCHANGED vars
  BY <1>2, <1>7 DEF vars, escVars
<1> QED BY <1>3, <1>4, <1>5, <1>6, <1>7 DEF Next

LEMMA InitContract == ASSUME Init PROVE Earning /\ Contract!Init
<1>1. \A c \in Caller : run[c]["user"] = Idle /\ run[c]["root"] = Idle
  <2>1. run = [c \in Caller |-> [user |-> Idle, root |-> Idle]]
    BY DEF Init, EscInit
  <2>2. run \in Runs
    BY <2>1, IdleType, SMT DEF Runs, Level
  <2> QED BY <2>1, <2>2, SMT DEF Runs, Level
<1>2. \A c \in Caller : Phase(c) = "idle" /\ Asked(c) = None /\ Answer(c) = None
  BY <1>1, InitIInv, PartsNow, IdleFields DEF Part
<1>3. acted = [c \in Caller |-> FALSE]
  BY DEF Init, EscInit
<1> QED BY <1>1, <1>2, <1>3, IdleDeserves DEF Earning, Earned, Level, Contract!Init

\* escalate_via_helper and all that is done through it keep the contract of a
\* command: a success that had an effect, a failure that had none, and none
\* to come once the outcome is told, for any number of commands at once.
THEOREM ContractHonoured == Spec => ContractKept
<1>1. Init => IInv /\ Guards /\ Earning /\ Contract!Init
  BY InitIInv, InitGuards, InitContract
<1>2. IInv /\ [Next]_vars => IInv'
  BY NextShaped, StageStep, PopulationStep, NetworkStep DEF IInv, World
<1>3. IInv /\ Guards /\ [Next]_vars => Guards'
  BY GuardsStep
<1>4. IInv /\ IInv' /\ Guards' /\ Earning /\ [Next]_vars
      => Earning' /\ [Contract!Next]_(Contract!contractVars)
  BY ContractStep
<1> QED BY <1>1, <1>2, <1>3, <1>4, PTL DEF Spec, ContractKept, Contract!Spec
=============================================================================
