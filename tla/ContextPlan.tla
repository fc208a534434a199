------------------------------ MODULE ContextPlan ------------------------------
(***************************************************************************)
(* What of a thread a model is sent: plan_context                          *)
(* (backend/services/context_planner.py) over the units of                 *)
(* backend/services/context_compaction.py.  A history that does not fit    *)
(* the budget is cut into units (a call with its results, or one message), *)
(* the newest units that fit are selected, a marker stands for the rest,   *)
(* and units are dropped again until the marker fits too.                  *)
(*                                                                         *)
(* Abstractions.  A message is its role, an id that stands for what it     *)
(* says, its size in tokens, and its calls.  A text that is cut has the    *)
(* size the budget leaves, never less than CutFloor: the code cuts by      *)
(* quarters and adds a note.  Every message has text (images alone are     *)
(* never cut).  Memories are one more system message at the front.  Of     *)
(* what the marker tells, decisions and errors are kept, without the limit *)
(* of five each; the approvals are gathered in the same way.  The manifest *)
(* is left out.                                                            *)
(***************************************************************************)
EXTENDS Integers, Sequences, FiniteSets, SequencesExt

CONSTANTS
  CallIds,     \* the ids of calls
  Histories,   \* the histories to plan for
  Budgets,     \* the values of max_tokens
  ToolLimit,   \* the size a result of a tool is bounded to
  MarkerBase,  \* the size of a marker without entries
  EntrySize, ShortEntry,  \* what an entry adds to it, in full and shortened
  CutFloor     \* the size of the shortest text a cut leaves

Messages ==
  [role : {"system", "user", "assistant", "tool"}, id : Nat \ {0}, size : Nat \ {0},
   calls : SUBSET CallIds, call : CallIds, error : BOOLEAN]

IsSystem(m) == m.role = "system"
IsConversation(m) == m.role # "system"

\* The histories that the loop keeps: its messages are numbered, and the results of a
\* call come next after it, with no more than instructions between them.
Causal(history) ==
  /\ history \in Seq(Messages)
  /\ \A i \in DOMAIN history : history[i].id = i
  /\ \A i, j \in DOMAIN history : history[j].call \in history[i].calls =>
       /\ i < j /\ history[i].role = "assistant" /\ history[j].role = "tool"
       /\ \A k \in (i + 1)..j : IsConversation(history[k]) =>
            history[k].role = "tool" /\ history[k].call \in history[i].calls

\* The values of the constants a configuration may take.
Parameters ==
  /\ {ToolLimit, MarkerBase, EntrySize, ShortEntry, CutFloor} \subseteq Nat \ {0}
  /\ ShortEntry <= EntrySize /\ CutFloor <= MarkerBase /\ Budgets \subseteq Int
  /\ \A history \in Histories : Causal(history)

VARIABLES
  asked,     \* the history, the budget and preserve_latest_tool_result
  at,        \* "new", "selecting", "keeping", "marking", "fitting" or "done"
  units,     \* the units of the messages that are not instructions
  next,      \* the unit that selection looks at, from the newest down
  chosen,    \* the units selected
  evidence,  \* what the projection preserves of the others: ids of messages
  marker,    \* the size of the marker, 0 without one
  sent       \* the messages for the model, once done

vars == <<asked, at, units, next, chosen, evidence, marker, sent>>

TypeOK ==
  /\ asked.budget \in Budgets /\ asked.preserve \in BOOLEAN
  /\ at \in {"new", "selecting", "keeping", "marking", "fitting", "done"}
  /\ chosen \subseteq DOMAIN units /\ next \in 0..Len(units)
  /\ marker \in Nat
  /\ \A u \in DOMAIN units : units[u] # <<>> /\ \A i \in DOMAIN units[u] : units[u][i].size > 0

----------------------------------------------------------------------------
(* Messages, their sizes and their units.                                  *)

Size(messages) ==
  LET size[n \in 0..Len(messages)] == IF n = 0 THEN 0 ELSE size[n - 1] + messages[n].size
  IN  size[Len(messages)]

\* The parts in places, one after the other.
Joined(parts, places) ==
  LET joined[n \in 0..Len(parts)] ==
        IF n = 0 THEN <<>>
        ELSE IF n \in places THEN joined[n - 1] \o parts[n] ELSE joined[n - 1]
  IN  joined[Len(parts)]

LatestTool(messages) == SelectLastInSeq(messages, LAMBDA m : m.role = "tool")

Bound(m) == IF m.role = "tool" /\ m.size > ToolLimit THEN [m EXCEPT !.size = ToolLimit] ELSE m

\* _bound_tool_results, which plan_context spares the latest result when it
\* is to be preserved.
Bounded(messages, spared) ==
  [i \in DOMAIN messages |-> IF i = spared THEN messages[i] ELSE Bound(messages[i])]

History ==
  Bounded(asked.history, IF asked.preserve THEN LatestTool(asked.history) ELSE 0)

Answers(unit, m) ==
  m.role = "tool" /\ unit[1].role = "assistant" /\ m.call \in unit[1].calls

Extended(us, m) ==
  IF IsSystem(m) THEN us
  ELSE IF us # <<>> /\ Answers(us[Len(us)], m) THEN [us EXCEPT ![Len(us)] = Append(@, m)]
  ELSE Append(us, <<m>>)

\* A call with the results that follow it, or one message; instructions are in none.
Units(messages) ==
  LET us[n \in 0..Len(messages)] ==
        IF n = 0 THEN <<>> ELSE Extended(us[n - 1], messages[n])
  IN  us[Len(messages)]

Systems ==
  Joined([i \in DOMAIN History |-> <<History[i]>>], {i \in DOMAIN History : IsSystem(History[i])})

\* The messages of the units us, oldest first.
Kept(us) == Joined(units, us)

Used == Size(Systems) + Size(Kept(chosen))

\* The baseline marker counts as one token.
SelectionBudget == asked.budget - 1

Cut(size, budget) ==
  IF budget <= 0 \/ size <= budget THEN size ELSE IF budget < CutFloor THEN CutFloor ELSE budget

----------------------------------------------------------------------------
(* plan_context.                                                           *)

Init ==
  /\ asked \in [history : Histories, budget : Budgets, preserve : BOOLEAN]
  /\ at = "new" /\ units = <<>> /\ next = 0 /\ chosen = {}
  /\ evidence = {} /\ marker = 0 /\ sent = <<>>

Send(messages) == at' = "done" /\ sent' = messages

\* Nothing to plan, or all of it fits.
SendAll ==
  /\ at = "new"
  /\ \/ /\ asked.budget <= 0 \/ Len(asked.history) < 2
        /\ Send(asked.history)
     \/ /\ asked.budget > 0 /\ Len(asked.history) >= 2
        /\ Size(History) <= asked.budget
        /\ Send(History)
  /\ UNCHANGED <<asked, units, next, chosen, evidence, marker>>

Divide ==
  /\ at = "new" /\ asked.budget > 0 /\ Len(asked.history) >= 2
  /\ Size(History) > asked.budget
  /\ at' = "selecting"
  /\ units' = Units(History)
  /\ next' = Len(units')
  /\ UNCHANGED <<asked, chosen, evidence, marker, sent>>

Exceeds(u) == Used + Size(units[u]) > SelectionBudget

Select ==
  /\ at = "selecting" /\ next > 0 /\ ~Exceeds(next)
  /\ chosen' = chosen \cup {next} /\ next' = next - 1
  /\ UNCHANGED <<asked, at, units, evidence, marker, sent>>

\* The first unit that does not fit ends the selection.  The newest message
\* of all is cut to what is left, in the place of the first unit equal to it.
Overflow ==
  LET m == units[next][1]
      place == SelectInSeq(units, LAMBDA u : u = units[next])
      left == IF SelectionBudget - Used > 1 THEN SelectionBudget - Used ELSE 1
  IN  /\ at = "selecting" /\ next > 0 /\ Exceeds(next)
      /\ IF chosen = {} /\ Len(units[next]) = 1 /\ m.role # "tool"
         THEN /\ units' = [units EXCEPT ![place] = <<[m EXCEPT !.size = Cut(m.size, left)]>>]
              /\ chosen' = {place}
         ELSE UNCHANGED <<units, chosen>>
      /\ at' = "keeping"
      /\ UNCHANGED <<asked, next, evidence, marker, sent>>

SelectedAll ==
  /\ at = "selecting" /\ next = 0
  /\ at' = "keeping"
  /\ UNCHANGED <<asked, units, next, chosen, evidence, marker, sent>>

\* The unit of the latest result, for the providers that are to see it.
Keep ==
  LET tool == SelectLastInSeq(units, LAMBDA u : \E i \in DOMAIN u : u[i].role = "tool")
      keep == asked.preserve /\ tool # 0 /\ \A u \in chosen : units[u] # units[tool]
  IN  /\ at = "keeping"
      /\ chosen' = IF keep THEN chosen \cup {tool} ELSE chosen
      /\ at' = "marking"
      /\ UNCHANGED <<asked, units, next, evidence, marker, sent>>

Omitted == DOMAIN units \ chosen

\* What the marker tells of the units omitted: what the model decided and
\* what failed.
Entries ==
  {m.id : m \in {m \in UNION {ToSet(units[u]) : u \in Omitted} :
                   m.role = "assistant" \/ (m.role = "tool" /\ m.error)}}

FullMarker(entries) == MarkerBase + EntrySize * Cardinality(entries)

\* _fit_compaction_marker: in full, shortened, the headings, a cut text.
FitMarker(entries, budget) ==
  LET short == MarkerBase + ShortEntry * Cardinality(entries) IN
  CASE FullMarker(entries) <= budget -> FullMarker(entries)
    [] FullMarker(entries) > budget /\ short <= budget -> short
    [] short > budget /\ MarkerBase <= budget -> MarkerBase
    [] OTHER -> Cut(FullMarker(entries), budget)

Left(us) ==
  LET left == asked.budget - Size(Systems) - Size(Kept(us)) IN IF left > 1 THEN left ELSE 1

MarkerMessage(size) ==
  [role |-> "system", id |-> 0, size |-> size, calls |-> {}, call |-> <<0, 0>>, error |-> FALSE]

Payload == Systems \o <<MarkerMessage(marker)>> \o Kept(chosen)

Mark ==
  /\ at = "marking"
  /\ IF Omitted = {}
     THEN Send(Systems \o Kept(chosen)) /\ UNCHANGED <<evidence, marker>>
     ELSE /\ evidence' = Entries
          /\ marker' = IF asked.preserve THEN FullMarker(Entries)
                       ELSE FitMarker(Entries, Left(chosen))
          /\ at' = "fitting" /\ UNCHANGED sent
  /\ UNCHANGED <<asked, units, next, chosen>>

\* Mutant: the oldest message of a unit is dropped rather than the unit.
DropMessage ==
  LET u == Min(chosen) IN
  /\ at = "fitting" /\ ~asked.preserve
  /\ Cardinality(chosen) > 1 /\ Size(Payload) > asked.budget
  /\ IF Len(units[u]) > 1
     THEN units' = [units EXCEPT ![u] = Tail(@)] /\ UNCHANGED chosen
     ELSE chosen' = chosen \ {u} /\ UNCHANGED units
  /\ marker' = IF marker > CutFloor THEN marker - 1 ELSE marker
  /\ UNCHANGED <<asked, at, next, evidence, sent>>

DropUnit ==
  /\ at = "fitting" /\ ~asked.preserve
  /\ Cardinality(chosen) > 1 /\ Size(Payload) > asked.budget
  /\ chosen' = chosen \ {Min(chosen)}
  /\ marker' = FitMarker(evidence, Left(chosen'))
  /\ UNCHANGED <<asked, at, units, next, evidence, sent>>

Finish ==
  /\ at = "fitting"
  /\ asked.preserve \/ Cardinality(chosen) <= 1 \/ Size(Payload) <= asked.budget
  /\ Send(Payload)
  /\ UNCHANGED <<asked, units, next, chosen, evidence, marker>>

Next ==
  \/ SendAll \/ Divide \/ Select \/ Overflow \/ SelectedAll \/ Keep \/ Mark
  \/ DropUnit \/ Finish

Spec == Init /\ [][Next]_vars

----------------------------------------------------------------------------
(* Properties.  The histories number their messages.                       *)

Sent(id) == \E i \in DOMAIN sent : sent[i].id = id

\* The messages of the latest call that was answered: its call and results.
LatestExchange ==
  LET t == LatestTool(asked.history)
      together(i, j) ==
        \E d \in DOMAIN asked.history :
          {asked.history[i].call, asked.history[j].call} \subseteq asked.history[d].calls
  IN  {i \in DOMAIN asked.history :
         t # 0 /\ (i = t \/ together(i, t) \/ asked.history[t].call \in asked.history[i].calls)}

\* No provider is sent a result without its call, or a call without a result
\* the history has: selection and the dropping of units work on units
\* (_conversation_units).
PairsStayTogether ==
  at = "done" =>
    \A i, j \in DOMAIN asked.history :
      asked.history[j].call \in asked.history[i].calls => (Sent(i) <=> Sent(j))

\* What is sent is in the order it was said, instructions first; none of
\* them is missing (the sort by unit_order after the latest result was added
\* at the end).
InOrder ==
  at = "done" =>
    /\ \A i, j \in DOMAIN sent :
         i < j /\ sent[i].id # 0 /\ sent[j].id # 0 /\ (IsSystem(sent[i]) <=> IsSystem(sent[j]))
         => sent[i].id < sent[j].id
    /\ \A i \in DOMAIN asked.history : IsSystem(asked.history[i]) => Sent(i)
    /\ marker > 0 => \A i, j \in DOMAIN sent :
         i < j /\ IsConversation(sent[i]) => IsConversation(sent[j])

\* The conversation that is sent has no gap: whatever was said after a
\* message that is sent is sent too; the exchange that is preserved for its
\* result is the exception (the break of the selection, and pop(0)).
NoGap ==
  at = "done" =>
    \A i, j \in DOMAIN asked.history :
      /\ IsConversation(asked.history[i]) /\ IsConversation(asked.history[j])
      /\ i < j /\ Sent(i) /\ ~(asked.preserve /\ i \in LatestExchange)
      => Sent(j)

\* With preserve_latest_tool_result the latest result is sent, and whole.
LatestResultIsWhole ==
  at = "done" /\ asked.preserve /\ LatestTool(asked.history) # 0 =>
    asked.history[LatestTool(asked.history)] \in ToSet(sent)

\* What the marker says of the units omitted is about messages that are not
\* sent.
EvidenceIsOfOmitted ==
  at = "done" => \A e \in evidence : ~Sent(e)

-----------------------------------------------------------------------------
(* What a comment or a docstring says and the code does not keep.  TLC     *)
(* finds these violated, so no configuration checks them (see the README). *)

\* The comment of the drop loop: units are discarded until the complete
\* payload fits.  Here, wherever instructions, the shortest marker and the
\* shortest text of the newest message fit, the payload does.
FitsWhenItCan ==
  at = "done" /\ ~asked.preserve /\ marker > 0
    /\ Size(Systems) + CutFloor + CutFloor <= asked.budget
  => Size(sent) <= asked.budget

\* The newest request of the user is mandatory.
LatestRequestIsSent ==
  at = "done" =>
    LET u == SelectLastInSeq(asked.history, LAMBDA m : m.role = "user") IN u # 0 => Sent(u)

\* Errors of what was omitted are preserved.
ErrorsArePreserved ==
  at = "done" =>
    \A i \in DOMAIN asked.history :
      asked.history[i].role = "tool" /\ asked.history[i].error => Sent(i) \/ i \in evidence

=============================================================================
