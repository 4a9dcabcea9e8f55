---- MODULE MCSurfaces ----
(* Parts of the engine that share no state, one at a time: the contract loops, the    *)
(* feed of a channel, the accounts and what they own, the scan of a cron expression,  *)
(* the turn of a child.  The initial state chooses one; the others stay at rest.      *)
EXTENDS ContractLoop, ChannelFeed, Workspace, MCCron, ClaudeTurn

CONSTANTS t1, t2, a1, g1, g2, b1, b2

VARIABLE surface

OneReader == {a1}
SomeLimits == {1, 2, Unlimited}
TwoAccounts == {g1, g2}
TwoBrowsers == {b1, b2}
ThreeHandles == {"x", "y", "z"}
SomeLogins == (g1 :> "x") @@ (g2 :> "y")
TwoNames == {"home", "other"}
TwoTicks == {t1, t2}

AgentStep(l) == [kind |-> "agent", label |-> l, children |-> <<>>]
ParallelStep(ls) == [kind |-> "parallel", label |-> "p", children |-> ls]
OtherStep(kind) == [kind |-> kind, label |-> "s", children |-> <<>>]

Two == <<OtherStep("phase"), AgentStep("a"), ParallelStep(<<"b", "c">>)>>

Without(shape) == [ListBody(<<>>) EXCEPT !.shape = shape]

PostedBodies ==
  {ListBody(Two), ListBody(<<AgentStep("a"), OtherStep("null"), AgentStep("d")>>),
   Without("none")}

\* The same body, its keys in another order, a body without steps, and a text for them.
PlannedBodies ==
  {ListBody(Two), [ListBody(Two) EXCEPT !.order = 1], Without("none"), Without("text")}

Proposal(mode, trigger, stop, body) ==
  [mode |-> mode, trigger |-> trigger, stop |-> stop, body |-> body]

SomeProposals ==
  {Proposal(Missing, t, Missing, Missing) :
     t \in {Missing, Trigger("cron", ""), Trigger("cron", "0 9 * * *"),
            Trigger("interval", 0), Trigger("manual", Missing), Trigger("weekly", Missing)}}
  \cup {Proposal("one-shot", Trigger("interval", 5), "", b) :
           b \in {ListBody(Two), Without("text")}}
  \cup {Proposal(Missing, Trigger("cron", "every day at nine"), Missing,
                  ListBody(<<OtherStep("null")>>))}

ALine(type, blocks, bad, wide) ==
  [type |-> type, blocks |-> blocks, bad |-> bad, wide |-> wide]

\* Two blocks in one line, blocks that map to nothing, both results, and lines that
\* are blank, no JSON, or JSON without an object.
SomeLines ==
  {ALine("assistant", <<"thinking", "text", "tool_use">>, FALSE, TRUE),
   ALine("user", <<"tool_result", "text">>, FALSE, FALSE),
   ALine("result", <<>>, FALSE, FALSE),
   ALine("result", <<>>, TRUE, FALSE),
   ALine("garbage", <<>>, FALSE, FALSE),
   ALine("null", <<>>, FALSE, FALSE),
   ALine("blank", <<>>, FALSE, FALSE)}

\* What is not read is in some initial state of its own.
NoScan == expr = [f \in Fields |-> Star] /\ from = 5 /\ Init
NoTurn == reader = "local" /\ script = <<>> /\ TurnInit

SurfacesInit ==
  /\ ContractInit /\ FeedInit /\ WorkspaceInit
  /\ \/ surface \in {"contract", "feed", "workspace"} /\ NoScan /\ NoTurn
     \/ surface = "cron" /\ Init /\ NoTurn
     \/ surface = "turn" /\ NoScan /\ TurnInit

serverVars == <<contractVars, feedVars, workspaceVars>>
inputVars == <<vars, turnVars>>

SurfacesNext ==
  /\ UNCHANGED surface
  /\ \/ /\ surface = "contract" /\ ContractNext
        /\ UNCHANGED <<feedVars, workspaceVars, inputVars>>
     \/ /\ surface = "feed" /\ FeedNext
        /\ UNCHANGED <<contractVars, workspaceVars, inputVars>>
     \/ /\ surface = "workspace" /\ WorkspaceNext
        /\ UNCHANGED <<contractVars, feedVars, inputVars>>
     \/ surface = "cron" /\ Next /\ UNCHANGED <<turnVars, serverVars>>
     \/ surface = "turn" /\ TurnNext /\ UNCHANGED <<vars, serverVars>>

SurfacesSpec ==
  /\ SurfacesInit
  /\ [][SurfacesNext]_<<surface, serverVars, inputVars>>
  /\ SignInFairness
====
