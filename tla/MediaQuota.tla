------------------------------ MODULE MediaQuota ------------------------------
(***************************************************************************)
(* The monthly quota of the managed media tools: the repository of         *)
(* reservations (backend/services/media_quota.py) and the tools that       *)
(* reserve before a provider is called and settle afterwards               *)
(* (backend/tools/media.py: generate_image, text_to_speech,                *)
(* generate_video).                                                        *)
(*                                                                         *)
(* An attempt is one invocation of a tool.  Its key is the id of the tool  *)
(* call, so a retry is another attempt with the same key.  A transaction   *)
(* on a store is one step; the answer reaches the attempt in a later one,  *)
(* because the store runs in a thread or behind a connection.  Positions:  *)
(*   idle       not invoked yet                                            *)
(*   replying   the reservation is committed, or refused, in the store     *)
(*   calling    the provider is at work                                    *)
(*   saving     writes the bytes under artifacts/                          *)
(*   settling   finalize is next, in the body of the tool                  *)
(*   excepting  finalize is next, in its except branch                     *)
(*   delivered, ended, dead   returned media, an error, or lost in a crash *)
(*                                                                         *)
(* Abstractions.  A user's tier is a limit that does not change; a tier    *)
(* that cannot be read refuses the reservation.  Calls paid with the       *)
(* user's own key never reach the repository and are left out, and so are  *)
(* the checks of the prompt and of the provider's capabilities before the  *)
(* reservation.  Telemetry is left out.                                    *)
(***************************************************************************)
EXTENDS Integers, FiniteSets

CONSTANTS
  Attempts,     \* invocations of the media tools
  Keys, Users, Operations,
  KeyOf,        \* tool_call_id of each attempt
  UserOf, OperationOf,
  UnitCosts,    \* UNIT_COSTS
  Limit,        \* MONTHLY_LIMITS of the tier of each user
  MaxPeriod,    \* bound on the months that pass
  Events        \* what the environment may do; see AllEvents

AllEvents ==
  {"crash",       \* the process ends with attempts in flight
   "cancel",      \* the task of a tool call is cancelled
   "error",       \* the provider raises, or the file cannot be written
   "outage",      \* Postgres does not answer
   "switch",      \* the storage mode changes while the process runs
   "overlap"}     \* two attempts with one key run at the same time

Backends == {"sqlite", "postgres"}
Periods == 1..MaxPeriod

ASSUME QuotaKeys == KeyOf \in [Attempts -> Keys]
ASSUME QuotaUsers == UserOf \in [Attempts -> Users]
ASSUME QuotaOperations == OperationOf \in [Attempts -> Operations]
ASSUME QuotaCosts == UnitCosts \in [Operations -> Nat]
ASSUME QuotaLimits == Limit \in [Users -> Nat]
ASSUME QuotaPeriods == MaxPeriod \in Nat \ {0}
ASSUME QuotaEvents == Events \subseteq AllEvents

VARIABLES
  used,         \* media_quota_usage.used_units, per store, user and month
  reservation,  \* media_quota_reservations, per store and key
  storage,      \* the store _postgres_enabled selects
  period,       \* the current month
  call          \* the attempts: position, store, and what is to be settled

vars == <<used, reservation, storage, period, call>>

Charging == {"reserved", "finalized", "unknown"}
Refunded == {"failed", "cancelled"}
NoRow == [state |-> "none"]

Row ==
  [user : Users, operation : Operations, units : Nat, period : Periods,
   state : Charging \cup Refunded]

Finished == {"delivered", "ended", "dead"}

Call ==
  [pc : {"idle", "replying", "calling", "saving", "settling", "excepting"}
          \cup Finished,
   store : Backends,
   granted : BOOLEAN,
   verdict : {"finalized", "unknown", "failed"}]

TypeOK ==
  /\ used \in [Backends -> [Users -> [Periods -> Nat]]]
  /\ reservation \in [Backends -> [Keys -> Row \cup {NoRow}]]
  /\ storage \in Backends
  /\ period \in Periods
  /\ call \in [Attempts -> Call]

Init ==
  /\ used = [b \in Backends |-> [u \in Users |-> [p \in Periods |-> 0]]]
  /\ reservation = [b \in Backends |-> [k \in Keys |-> NoRow]]
  /\ storage \in Backends
  /\ period = 1
  /\ call = [a \in Attempts |->
       [pc |-> "idle", store |-> "sqlite", granted |-> FALSE, verdict |-> "unknown"]]

----------------------------------------------------------------------------
(* The repository: each of these is one transaction on the store b.       *)

\* The debit of n units of user u in the current month.
Debits(b, u, n) ==
  /\ used[b][u][period] + n <= Limit[u]
  /\ used' = [used EXCEPT ![b][u][period] = @ + n]

\* A key that is new: the row and the debit are written together.
InsertReservation(b, a) ==
  LET units == UnitCosts[OperationOf[a]] IN
  /\ reservation[b][KeyOf[a]] = NoRow
  /\ Debits(b, UserOf[a], units)
  /\ reservation' = [reservation EXCEPT ![b][KeyOf[a]] =
       [user |-> UserOf[a], operation |-> OperationOf[a], units |-> units,
        period |-> period, state |-> "reserved"]]

\* The row of the key belongs to this user and operation.
SameOperation(b, a) ==
  LET row == reservation[b][KeyOf[a]] IN
  row # NoRow /\ row.user = UserOf[a] /\ row.operation = OperationOf[a]

\* Mutant: the retry of a refunded key is not debited.
ReactivateFree(b, a) ==
  /\ SameOperation(b, a)
  /\ reservation[b][KeyOf[a]].state \in Refunded
  /\ reservation' = [reservation EXCEPT ![b][KeyOf[a]].state = "reserved",
                                        ![b][KeyOf[a]].period = period]
  /\ UNCHANGED used

\* A refunded key is debited again, in the month of the retry.
Reactivate(b, a) ==
  LET row == reservation[b][KeyOf[a]] IN
  /\ SameOperation(b, a)
  /\ row.state \in Refunded
  /\ Debits(b, row.user, row.units)
  /\ reservation' = [reservation EXCEPT ![b][KeyOf[a]].state = "reserved",
                                        ![b][KeyOf[a]].period = period]

\* A key that still charges is handed out as it is.
ReadReservation(b, a) ==
  /\ SameOperation(b, a)
  /\ reservation[b][KeyOf[a]].state \in Charging
  /\ UNCHANGED <<used, reservation>>

\* Mutant: the refund goes to the current month.
FinalizeThisMonth(b, k, verdict) ==
  LET row == reservation[b][k] IN
  IF row # NoRow /\ row.state = "reserved"
  THEN /\ reservation' = [reservation EXCEPT ![b][k].state = verdict]
       /\ used' = IF verdict \in Refunded
                  THEN [used EXCEPT ![b][row.user][period] =
                          IF @ > row.units THEN @ - row.units ELSE 0]
                  ELSE used
  ELSE UNCHANGED <<used, reservation>>

\* finalize: only the first verdict on a reservation counts.
Finalize(b, k, verdict) ==
  LET row == reservation[b][k] IN
  IF row # NoRow /\ row.state = "reserved"
  THEN /\ reservation' = [reservation EXCEPT ![b][k].state = verdict]
       /\ used' = IF verdict \in Refunded
                  THEN [used EXCEPT ![b][row.user][row.period] =
                          IF @ > row.units THEN @ - row.units ELSE 0]
                  ELSE used
  ELSE UNCHANGED <<used, reservation>>

----------------------------------------------------------------------------
(* The tools.                                                             *)

At(a, pc) == call[a].pc = pc
Goto(a, pc) == call' = [call EXCEPT ![a].pc = pc]
Settle(a, pc, verdict) == call' = [call EXCEPT ![a].pc = pc, ![a].verdict = verdict]

\* The store reserve uses: an unreachable Postgres falls back to SQLite.
Reachable(b) == b = storage \/ (storage = "postgres" /\ "outage" \in Events)

MayStart(a) ==
  /\ At(a, "idle")
  /\ "overlap" \in Events
       \/ \A o \in Attempts \ {a} :
            KeyOf[o] = KeyOf[a] => call[o].pc \in {"idle"} \cup Finished

Replies(a, b, granted) ==
  call' = [call EXCEPT ![a].pc = "replying", ![a].store = b, ![a].granted = granted]

\* reserve commits; only a row in state `reserved' lets the tool go on.
Reserve(a, b) ==
  /\ MayStart(a)
  /\ Reachable(b)
  /\ \/ InsertReservation(b, a) /\ Replies(a, b, TRUE)
     \/ Reactivate(b, a) /\ Replies(a, b, TRUE)
     \/ /\ ReadReservation(b, a)
        /\ Replies(a, b, reservation[b][KeyOf[a]].state = "reserved")
  /\ UNCHANGED <<storage, period>>

\* reserve refuses: another operation's key, the limit, or an unknown tier.
Refuse(a) ==
  /\ MayStart(a)
  /\ Goto(a, "ended")
  /\ UNCHANGED <<used, reservation, storage, period>>

Submit(a) ==
  /\ At(a, "replying")
  /\ Goto(a, IF call[a].granted THEN "calling" ELSE "ended")
  /\ UNCHANGED <<used, reservation, storage, period>>

\* Mutant: an empty answer is not settled.
ProviderReturnsUnsettled(a) ==
  /\ At(a, "calling")
  /\ \/ Goto(a, "saving")
     \/ Goto(a, "ended")
     \/ /\ "error" \in Events
        /\ \E v \in {"failed", "unknown"} : Settle(a, "excepting", v)
  /\ UNCHANGED <<used, reservation, storage, period>>

\* The provider returns bytes, nothing, or raises.  An ImportError, a
\* NotImplementedError or, but for a video, a ValueError counts as not sent.
ProviderReturns(a) ==
  /\ At(a, "calling")
  /\ \/ Goto(a, "saving")
     \/ Settle(a, "settling", "unknown")
     \/ /\ "error" \in Events
        /\ \E v \in {"failed", "unknown"} : Settle(a, "excepting", v)
  /\ UNCHANGED <<used, reservation, storage, period>>

Save(a) ==
  /\ At(a, "saving")
  /\ \/ Settle(a, "settling", "finalized")
     \/ "error" \in Events /\ Settle(a, "excepting", "unknown")
  /\ UNCHANGED <<used, reservation, storage, period>>

AtFinalize(a) == At(a, "settling") \/ At(a, "excepting")

\* _finalize_media, and the answer of the tool.
Settles(a) ==
  /\ AtFinalize(a)
  /\ Finalize(call[a].store, KeyOf[a], call[a].verdict)
  /\ Goto(a, IF call[a].verdict = "finalized" THEN "delivered" ELSE "ended")
  /\ UNCHANGED <<storage, period>>

\* Cancelled, or Postgres fails, before or after finalize committed.  In the
\* body the except branch settles again; in the except branch it escapes.
SettleInterrupted(a) ==
  /\ AtFinalize(a)
  /\ "cancel" \in Events \/ ("outage" \in Events /\ call[a].store = "postgres")
  /\ \/ UNCHANGED <<used, reservation>>
     \/ Finalize(call[a].store, KeyOf[a], call[a].verdict)
  /\ IF At(a, "settling") THEN Settle(a, "excepting", "unknown") ELSE Goto(a, "ended")
  /\ UNCHANGED <<storage, period>>

\* Cancelled, or the connection lost, while reserve runs: the tool never
\* sees the reservation it made.
ReserveLost(a) ==
  /\ At(a, "replying")
  /\ "cancel" \in Events \/ ("outage" \in Events /\ call[a].store = "postgres")
  /\ Goto(a, "ended")
  /\ UNCHANGED <<used, reservation, storage, period>>

\* Cancelled after `submitted' was set.
CancelCall(a) ==
  /\ "cancel" \in Events
  /\ At(a, "calling") \/ At(a, "saving")
  /\ Settle(a, "excepting", "unknown")
  /\ UNCHANGED <<used, reservation, storage, period>>

Crash ==
  /\ "crash" \in Events
  /\ \E a \in Attempts : call[a].pc \notin {"idle"} \cup Finished
  /\ call' = [a \in Attempts |->
       IF call[a].pc \in {"idle"} \cup Finished THEN call[a]
       ELSE [call[a] EXCEPT !.pc = "dead"]]
  /\ UNCHANGED <<used, reservation, storage, period>>

NextMonth ==
  /\ period < MaxPeriod
  /\ period' = period + 1
  /\ UNCHANGED <<used, reservation, storage, call>>

SwitchStorage ==
  /\ "switch" \in Events
  /\ \E b \in Backends \ {storage} : storage' = b
  /\ UNCHANGED <<used, reservation, period, call>>

Step(a) ==
  \/ \E b \in Backends : Reserve(a, b)
  \/ Refuse(a) \/ Submit(a) \/ ProviderReturns(a) \/ Save(a)
  \/ Settles(a) \/ SettleInterrupted(a) \/ ReserveLost(a) \/ CancelCall(a)

Next == (\E a \in Attempts : Step(a)) \/ Crash \/ NextMonth \/ SwitchStorage

Spec == Init /\ [][Next]_vars

----------------------------------------------------------------------------
\* The units of a month that rows still charge, one pair per unit.
ChargedUnits(b, u, p) ==
  {unit \in Keys \X (1..Limit[u]) :
     LET row == reservation[b][unit[1]] IN
     /\ row # NoRow
     /\ row.state \in Charging
     /\ row.user = u
     /\ row.period = p
     /\ unit[2] <= row.units}

\* What a user has used in a month is what the rows of that month charge:
\* no retry, refund, month change or late verdict loses or invents units.
UsedIsCharged ==
  \A b \in Backends, u \in Users, p \in Periods :
    used[b][u][p] = Cardinality(ChargedUnits(b, u, p))

\* The limit of the month holds in each store whatever runs in parallel.
WithinLimit ==
  \A b \in Backends, u \in Users, p \in Periods : used[b][u][p] <= Limit[u]

\* The accounts agree: every unit that is used is charged, within the limit.
AccountsAgree == UsedIsCharged /\ WithinLimit

\* Media that reached the user is paid for: while attempts with one key do
\* not overlap, no later failure of the key refunds it.
DeliveredIsCharged ==
  \A a \in Attempts :
    At(a, "delivered") =>
      reservation[call[a].store][KeyOf[a]].state = "finalized"

\* A key buys one result per store.
DeliveredOnce ==
  \A a, o \in Attempts :
    /\ At(a, "delivered") /\ At(o, "delivered")
    /\ KeyOf[a] = KeyOf[o] /\ call[a].store = call[o].store
    => a = o

\* A reservation does not leak: while nothing crashes, is cancelled or loses
\* its connection, an attempt works on every open one.
OpenIsWorkedOn ==
  \A b \in Backends, k \in Keys :
    reservation[b][k] # NoRow /\ reservation[b][k].state = "reserved"
      => \E a \in Attempts :
           /\ KeyOf[a] = k /\ call[a].store = b /\ call[a].granted
           /\ call[a].pc \notin {"idle"} \cup Finished

\* A key that was finalized, or whose outcome is unknown, stays so in its
\* store: no retry, refund or second verdict reopens it.
SettledIsFinal ==
  [][\A b \in Backends, k \in Keys :
       reservation[b][k] # NoRow /\ reservation[b][k].state \in {"finalized", "unknown"}
         => reservation'[b][k] = reservation[b][k]]_vars

\* A verdict refunds the month that was debited, and only that one.
RefundsOwnMonth ==
  [][\A b \in Backends, u \in Users, p \in Periods :
       used'[b][u][p] < used[b][u][p]
         => \E k \in Keys :
              /\ reservation[b][k] # NoRow
              /\ reservation[b][k].user = u /\ reservation[b][k].period = p
              /\ reservation[b][k].state = "reserved"
              /\ reservation'[b][k].state \in Refunded
              /\ used[b][u][p] - used'[b][u][p] = reservation[b][k].units]_vars

\* A verdict settles a reservation for good, and refunds what was debited.
VerdictsSettle == SettledIsFinal /\ RefundsOwnMonth

-----------------------------------------------------------------------------
(* What a comment or a docstring says and the code does not keep.  TLC     *)
(* finds these violated, so no configuration checks them (see the README). *)

\* One tool call is charged once (a fallback to SQLite breaks this).
KeyChargedOnce ==
  \A k \in Keys :
    ~ \A b \in Backends :
        reservation[b][k] # NoRow /\ reservation[b][k].state \in Charging

==============================================================================
