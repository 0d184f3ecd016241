--------------------------- MODULE MCVersionBisect ---------------------------
(* What comes of a series of checks: scans over every catalog of a few     *)
(* releases, from every baseline; and the cost estimate that `qualock      *)
(* cost' makes of the checks of a project.                                 *)
EXTENDS VersionBisect, Pricing

VARIABLE subject

(* Two programs: the second one gives a card's id other rates, and prices  *)
(* a model by another card from day 2 on.                                  *)
Rates(n, write) ==
  [uncached |-> n, cached |-> 1, output |-> 2 * n,
   write_lower |-> write, write_upper |-> IF write = Nothing THEN Nothing ELSE write + 1]

Card(id, provider, model, from, until, rates) ==
  [id |-> id, provider |-> provider, model |-> model,
   from |-> from, until |-> until, rates |-> rates]

Other == {Card("sol", "openai", "gpt", 1, Nothing, Rates(2, 3)),
          Card("flash", "google", "flash", 1, Nothing, Rates(1, Nothing)),
          Card("opus", "anthropic", "opus", 1, Nothing, Rates(3, 4))}

MCCatalogs ==
  {Other \cup {Card("sonnet", "anthropic", "sonnet", 1, Nothing, Rates(2, 2))},
   Other \cup {Card("sonnet", "anthropic", "sonnet", 1, 1, Rates(3, 2)),
               Card("sonnet-2", "anthropic", "sonnet", 2, Nothing, Rates(4, 2))},
   Other \cup {Card("sonnet", "anthropic", "sonnet", 1, 2, Rates(2, 2)),
               Card("sonnet-2", "anthropic", "sonnet", 2, Nothing, Rates(4, 2))}}

MCConfigs == {[agent |-> "claude", model |-> "sonnet"],
            [agent |-> "claude", model |-> "alias"],
            [agent |-> "codex", model |-> "gpt-alias"],
            [agent |-> "gemini", model |-> "flash"],
            [agent |-> "antigravity", model |-> "flash-low"]}

Stream(models, finals, write) ==
  [malformed |-> FALSE, models |-> models, finals |-> finals, read |-> TRUE, write |-> write]

Attempt(side, usage, events) ==
  [side |-> side, repetition |-> 1, usage |-> usage, events |-> events]

Execution(canary, events, candidate, usage) ==
  [canary |-> canary,
   attempts |-> <<Attempt("baseline", [input |-> 4, cached |-> 1, write |-> 1,
                                       output |-> 2, reasoning |-> 1], events),
                  Attempt("candidate", usage, candidate)>>]

Tokens(cached, write) ==
  [input |-> 4, cached |-> cached, write |-> write, output |-> 2, reasoning |-> 1]

(* Of Claude, the first canary's candidate may show another model, no      *)
(* cache writes, or nothing at all; or nobody shows a model.               *)
ClaudeResults ==
  LET good == Stream({"sonnet"}, 1, TRUE)
      silent == Stream({}, 1, TRUE)
  IN  {<<Execution("a", good, good, Tokens(2, 1)), Execution("b", good, good, Tokens(1, 2))>>,
       <<Execution("a", good, Stream({"opus"}, 1, TRUE), Tokens(1, 1))>>,
       <<Execution("a", good, Stream({"sonnet"}, 1, FALSE), Tokens(1, 1)),
         Execution("b", good, good, Tokens(1, 2))>>,
       <<Execution("a", good, Stream({}, 0, FALSE), Nothing)>>,
       <<Execution("b", silent, silent, Tokens(1, 1))>>}

(* The others report no cache writes, and Codex and Antigravity no model;  *)
(* a candidate's usage may not add up, its cache reads may be missing from *)
(* the stream, or the stream may be broken.                                *)
NoWrites(cached, stream) ==
  {<<[canary |-> "a",
      attempts |-> <<Attempt("baseline", Tokens(1, 0), stream),
                     Attempt("candidate", Tokens(cached, 0), stream)>>]>>}

MCResults ==
  [claude |-> ClaudeResults,
   codex |-> NoWrites(1, Stream({}, 1, FALSE)),
   gemini |-> NoWrites(1, Stream({"flash"}, 1, FALSE))
              \cup NoWrites(1, [Stream({"flash"}, 1, FALSE) EXCEPT !.malformed = TRUE]),
   antigravity |-> NoWrites(1, Stream({}, 1, FALSE)) \cup NoWrites(5, Stream({}, 1, FALSE))
                   \cup NoWrites(1, [Stream({}, 1, FALSE) EXCEPT !.read = FALSE])]

MCSuites == {{"a"}, {"a", "b"}}

MCVars == <<vars, subject, costVars>>

(* The project whose cost is asked for has had a scan of nothing.          *)
MCInit ==
  /\ Init /\ CostInit /\ subject \in {"scan", "cost"}
  /\ subject = "cost" => upper = 1 /\ baseline = 1 /\ catalog = {}

MCNext ==
  /\ \/ Next /\ UNCHANGED costVars
     \/ subject = "cost" /\ at = "raised" /\ CostNext /\ UNCHANGED vars
  /\ UNCHANGED subject

MCSpec ==
  /\ MCInit /\ [][MCNext]_MCVars
  /\ WF_MCVars(Next /\ UNCHANGED <<costVars, subject>>)
=============================================================================
