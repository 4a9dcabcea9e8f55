---------------------------- MODULE ContractLoop ----------------------------
(***************************************************************************)
(* A loop of flow "contract": how a conversation becomes its spec, how each *)
(* tick plans this run's body and walks it, and how an adapted body becomes *)
(* the loop's own.  Ticks overlap, and the spec may change under a run: it  *)
(* carries the contract its tick has read.                                  *)
(*                                                                          *)
(* A body is the JSON value an agent or a client wrote: its `steps` may be  *)
(* a list, missing, or a text; `order` is the order its keys are written in.*)
(***************************************************************************)
EXTENDS Integers, Sequences, FiniteSets, SequencesExt

CONSTANTS
  Ticks,      \* the runs of the loop
  Bodies,     \* the bodies clients write
  Replies,    \* the bodies agents plan
  Proposals,  \* what an agent distils from a conversation
  Hour,       \* the default interval
  Missing      \* a field that is not there, a loop that does not exist

VARIABLES
  loop,  \* the stored spec
  distilled,  \* does it come from a conversation?
  run    \* every run of it

contractVars == <<loop, distilled, run>>

-----------------------------------------------------------------------------
(* From a conversation to a spec. *)

\* The trigger an agent proposed, or the default; the argument is expr or everyMs.
Trigger(kind, arg) == [kind |-> kind, arg |-> arg]

MapTrigger(t) ==
  IF t = Missing THEN Trigger("interval", Hour)
  ELSE CASE t.kind = "cron" /\ t.arg \notin {Missing, ""} -> t
         [] t.kind = "interval" /\ t.arg \in Nat \ {0} -> t
         [] t.kind \in {"manual", "self-paced"} -> Trigger(t.kind, Missing)
         [] OTHER -> Trigger("interval", Hour)

\* Mutant: a one-shot loop keeps its trigger.
KeepTrigger(spec) ==
  [spec EXCEPT !.stop = IF @ \in {Missing, ""} THEN "user cancels" ELSE @,
               !.mode = IF @ = Missing THEN "live" ELSE @]

\* A spec without a stop rule gets one; a one-shot loop has no trigger.
CompileDefaults(spec) ==
  LET mode == IF spec.mode # Missing THEN spec.mode
              ELSE IF spec.trigger # Missing THEN "live" ELSE "one-shot"
  IN  [spec EXCEPT !.stop = IF @ \in {Missing, ""} THEN "user cancels" ELSE @,
                   !.mode = mode,
                   !.trigger = IF mode = "one-shot" THEN Missing ELSE @]

ListBody(steps) == [shape |-> "list", steps |-> steps, order |-> 0]

Compiled(p) ==
  CompileDefaults([mode |-> p.mode, trigger |-> MapTrigger(p.trigger), stop |-> p.stop,
                   body |-> IF p.body # Missing /\ p.body.shape = "list" THEN p.body
                            ELSE ListBody(<<>>)])

-----------------------------------------------------------------------------
(* Walking a body. *)

\* The agents a step calls: the children of a parallel whatever their kinds.
CallsAt(step) ==
  CASE step.kind = "agent"    -> <<step.label>>
    [] step.kind = "parallel" -> step.children
    [] OTHER                  -> <<>>

\* What is missing is no value, and a body is one of the three shapes: a list of steps,
\* none, or a text, whose characters are no steps.
Steps == [kind : STRING, label : STRING, children : Seq(STRING)]

IsBody(b) ==
  /\ b # Missing
  /\ b = [shape |-> b.shape, steps |-> b.steps, order |-> b.order]
  /\ b.shape \in {"list", "none", "text"} /\ b.steps \in Seq(Steps)
  /\ b.shape # "list" => b.steps = <<>>

ASSUME ContractAssumption ==
  /\ Hour \in Nat \ {0}
  /\ Missing \notin {"user cancels", ""}
  /\ Missing \notin {Trigger("interval", Hour), Trigger("manual", Missing),
                    Trigger("self-paced", Missing)}
  /\ IsBody(ListBody(<<>>))
  /\ \A b \in Bodies \cup Replies : IsBody(b)
  /\ \A p \in Proposals : p.body # Missing => IsBody(p.body)

\* From step i on, the first that awaits something or is no step at all.
Stop(body, i) ==
  LET stops == {j \in i .. Len(body.steps) :
                  CallsAt(body.steps[j]) # <<>> \/ body.steps[j].kind = "null"}
  IN  IF stops = {} THEN Len(body.steps) + 1 ELSE CHOOSE j \in stops : \A k \in stops : j <= k

\* Run x walks its plan from step i to the next await, to the end or into an error.  A
\* body without steps is not iterable; a text is, and its characters are no steps.
Walk(x, i) ==
  LET j == Stop(x.plan, i)
  IN  IF x.plan.shape = "none" THEN [x EXCEPT !.phase = "failed"]
      ELSE IF x.plan.shape = "text" \/ j > Len(x.plan.steps) THEN [x EXCEPT !.phase = "completed"]
      ELSE IF x.plan.steps[j].kind = "null" THEN [x EXCEPT !.phase = "failed"]
      ELSE [x EXCEPT !.phase = "body", !.at = j, !.calls = @ \o CallsAt(x.plan.steps[j])]

\* Mutant: an unadapted run takes the body of now, if there is one.
PlanFromStore(x, reply) ==
  IF reply = Missing \/ reply = x.contract
    THEN [x EXCEPT !.plan = IF loop.body = Missing THEN x.contract ELSE loop.body,
                   !.adapted = FALSE]
    ELSE [x EXCEPT !.plan = reply, !.adapted = TRUE]

\* The plan step's reply: Missing if no JSON object can be parsed from it.
Plan(x, reply) ==
  IF reply = Missing \/ reply = x.contract
    THEN [x EXCEPT !.plan = x.contract, !.adapted = FALSE]
    ELSE [x EXCEPT !.plan = reply, !.adapted = TRUE]

-----------------------------------------------------------------------------
Unused == [phase |-> "unused", contract |-> Missing, plan |-> Missing, adapted |-> FALSE,
           at |-> 0, calls |-> <<>>, failed |-> {}]

ContractInit ==
  /\ loop = Missing
  /\ distilled = FALSE
  /\ run = [r \in Ticks |-> Unused]

\* POST /loops: a client's own spec, whose body is taken as it is.
PostSpec(body) ==
  /\ loop' = [mode |-> "live", trigger |-> Trigger("interval", Hour),
              stop |-> "rule", body |-> body]
  /\ distilled' = FALSE
  /\ UNCHANGED run

\* POST /loops/from-session, once the agent has answered with a JSON object.
FromSession(p) ==
  /\ loop = Missing
  /\ loop' = Compiled(p)
  /\ distilled' = TRUE
  /\ UNCHANGED run

\* POST /loops/:id/adopt-run: the body posted replaces the loop's, the rest stays.
AdoptRun(body) ==
  /\ loop # Missing
  /\ body.shape = "list"
  /\ loop' = [loop EXCEPT !.body = body]
  /\ UNCHANGED <<distilled, run>>

\* A tick reads the contract; its first call is the plan step, or the whole legacy run.
StartTick(r) ==
  /\ loop # Missing /\ run[r].phase = "unused"
  /\ run' = [run EXCEPT ![r] = [@ EXCEPT !.contract = loop.body,
                                         !.phase = IF loop.body = Missing THEN "legacy" ELSE "plan",
                                         !.calls = <<"plan">>]]
  /\ UNCHANGED <<loop, distilled>>

PlanReplies(r, reply) ==
  /\ run[r].phase = "plan"
  /\ run' = [run EXCEPT ![r] = Walk(Plan(run[r], reply), 1)]
  /\ UNCHANGED <<loop, distilled>>

\* An agent step's rejection ends the run; a parallel's children become null instead.
StepFails(x) ==
  IF x.plan.steps[x.at].kind = "parallel" THEN Walk(x, x.at + 1)
  ELSE [x EXCEPT !.phase = "failed"]

\* What a run awaits settles: the plan step or the legacy call, which fail the run, or
\* the agent or all the children of a step.  `failed` is a history of what did not go well.
StepSettles(r, ok) ==
  LET x == [run[r] EXCEPT !.failed = IF ok THEN @ ELSE @ \cup {run[r].at}]
  IN  /\ x.phase \in {"plan", "legacy", "body"}
      /\ x.phase = "plan" => ~ok
      /\ run' = [run EXCEPT ![r] =
                   IF x.phase = "body" THEN IF ok THEN Walk(x, x.at + 1) ELSE StepFails(x)
                   ELSE [x EXCEPT !.phase = IF ok THEN "completed" ELSE "failed"]]
      /\ UNCHANGED <<loop, distilled>>

ContractNext ==
  \/ \E p \in Proposals : FromSession(p)
  \/ \E b \in Bodies \cup {Missing} : PostSpec(b)
  \/ \E b \in Bodies : AdoptRun(b)
  \/ \E r \in Ticks :
       \/ StartTick(r)
       \/ \E reply \in Replies \cup {Missing} : PlanReplies(r, reply)
       \/ \E ok \in BOOLEAN : StepSettles(r, ok)

ContractSpec == ContractInit /\ [][ContractNext]_contractVars

-----------------------------------------------------------------------------
\* What a body asks for, read as a whole: all the calls of its steps, in order.
CallsOf(body) == FlattenSeq([i \in DOMAIN body.steps |-> CallsAt(body.steps[i])])

\* A run that completes has made exactly the calls of the body it reports, in the order
\* of its steps, and a run at any point a part of them from the start; unless it
\* reports `adapted` the body is the one its own tick has read, whatever was posted or
\* adopted meanwhile.  It fails if and only if a call outside a parallel failed or its
\* plan cannot be walked: a body without steps, or a step that is null.  The children
\* of a parallel fail alone, and a plan that is no JSON is no failure.
RunsWhatItReports ==
  \A r \in Ticks :
    LET x == run[r]
        fatal == \E i \in x.failed : i = 0 \/ x.plan.steps[i].kind = "agent"
        unwalkable == x.plan # Missing /\
                        \/ x.plan.shape = "none"
                        \/ \E i \in DOMAIN x.plan.steps : x.plan.steps[i].kind = "null"
    IN  /\ x.plan # Missing =>
             /\ x.phase = "completed" => x.calls = <<"plan">> \o CallsOf(x.plan)
             /\ IsPrefix(x.calls, <<"plan">> \o CallsOf(x.plan))
             /\ x.adapted \/ x.plan = x.contract
        /\ x.phase = "completed" => ~fatal /\ ~unwalkable
        /\ x.phase = "failed" => fatal \/ unwalkable

\* A loop made from a conversation has what the agent's answer may have left out or got
\* wrong: a stop rule, a body that is a list, and a trigger exactly if it is to run more
\* than once, of one of four kinds and with its argument, an interval above zero or a
\* cron text that is not empty; adopting a run's body keeps it so.  Nobody looks further:
\* the cron text need not parse, which the first sweep over it finds out
\* (server.ts:516, scheduler.ts:75), and a step in the list may be null, which the first
\* run over it finds out (server.ts:526, executionBody.ts:24).
SessionLoopsAreSound ==
  distilled =>
    /\ loop.stop \notin {Missing, ""}
    /\ loop.body # Missing /\ loop.body.shape = "list"
    /\ loop.mode = "one-shot" <=> loop.trigger = Missing
    /\ loop.trigger # Missing =>
         \/ loop.trigger.kind = "interval" /\ loop.trigger.arg > 0
         \/ loop.trigger.kind = "cron" /\ loop.trigger.arg \notin {Missing, ""}
         \/ loop.trigger.kind \in {"manual", "self-paced"}
=============================================================================
