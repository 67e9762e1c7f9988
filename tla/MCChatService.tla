---------------------------- MODULE MCChatService ----------------------------
(***************************************************************************)
(* Small instances of ChatService.                                         *)
(***************************************************************************)
EXTENDS ChatService, TLC

CONSTANTS edit, test, check, read, grep,   \* tools
          e, t, c, r1, r2, r3, r4, g       \* calls

\* The whole tool set a client offers.
Toolbox == {edit, test, check, read, grep}

MCToolOf == (e :> edit) @@ (t :> test) @@ (c :> check)
              @@ (r1 :> read) @@ (r2 :> read) @@ (r3 :> read) @@ (r4 :> read) @@ (g :> grep)
ToolOfIn(calls) == [call \in calls |-> MCToolOf[call]]

GateCalls == {e, t, c, r1, r2, r3, r4, g}
GateToolOf == ToolOfIn(GateCalls)
ForcedCalls == {e, t, c, g}
ForcedToolOf == ToolOfIn(ForcedCalls)
BatchCalls == {e, t, g}
BatchToolOf == ToolOfIn(BatchCalls)
SplitCalls == {e, t, c}
SplitToolOf == ToolOfIn(SplitCalls)

MCMutation == {edit}
MCVerification == {test, check}
MCInvestigation == {read}

Plain == [harness |-> TRUE, require_receipt |-> TRUE, tool_choice_none |-> FALSE,
          user_turn |-> TRUE, format |-> "none", tools |-> Toolbox]

\* Requests without a schema: receipts required or not, tools offered or not, opt-out.
PlainRequests == {Plain, [Plain EXCEPT !.require_receipt = FALSE], [Plain EXCEPT !.tools = {}],
                  [Plain EXCEPT !.harness = FALSE]}

OnePlainRequest == {Plain}

\* Every combination of schema, tool choice, trailing user turn and opt-out.
SchemaRequests ==
  [harness: BOOLEAN, require_receipt: {TRUE}, tool_choice_none: BOOLEAN, user_turn: BOOLEAN,
   format: {"none", "freeform", "recovery", "summary"}, tools: {Toolbox}]

ReadSymmetry == Permutations({r1, r2, r3, r4})
=============================================================================
