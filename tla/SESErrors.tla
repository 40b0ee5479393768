----------------------------- MODULE SESErrors -----------------------------
(***************************************************************************)
(* How the SES sender names what went wrong (omnimail/classify.go), as     *)
(* operators.                                                              *)
(*                                                                         *)
(* An error has the HTTP status of the response (0 when there was none),   *)
(* the class of its error code ("none" without one), whether its message   *)
(* mentions an address and whether the network failed.                     *)
(***************************************************************************)
EXTENDS Integers, FiniteSets

CONSTANTS
  Statuses,         \* of responses
  HeaderValues,     \* what a Retry-After header may say
  ClockReadings,    \* when an error is classified
  UnitsPerSecond,   \* units that a Duration may count
  LargestDurations  \* and how far

ASSUME ErrorsAssumption ==
  /\ Statuses \subseteq Nat /\ Statuses # {}
  /\ HeaderValues \subseteq Int /\ ClockReadings \subseteq Int
  /\ UnitsPerSecond \subseteq Nat /\ LargestDurations \subseteq Nat

\* The codes of one class are treated alike.
codeKinds ==
  [throttling  |-> "Throttled",    policy |-> "Rejected",
   badRequest  |-> "InvalidMessage", malformed |-> "InvalidMessage",
   credentials |-> "Auth",         fault  |-> "Transient"]

Error(status, code, address, network) ==
  [status |-> status, code |-> code, address |-> address, network |-> network]

ClassifyByStatus(err) ==
  CASE err.status = 429                  -> "Throttled"
    [] err.status \in {401, 403}         -> "Auth"
    [] err.status \in 500..599           -> "Transient"
    [] err.status = 0 /\ err.network     -> "Transient"
    [] OTHER                             -> "Unknown"

Classify(err) ==
  IF err.code \in DOMAIN codeKinds
  THEN IF err.code = "badRequest" /\ err.address THEN "InvalidAddress" ELSE codeKinds[err.code]
  ELSE ClassifyByStatus(err)

Retryable(kind) == kind \in {"Throttled", "Transient"}

\* The kinds that say that the mail was refused.
Refusals == {"Rejected", "InvalidMessage", "InvalidAddress", "Auth", "Throttled"}

-----------------------------------------------------------------------------
(* Retry-After: nothing, a number of seconds, or a date.  A Duration counts*)
(* unit to the second, up to largest.                                      *)

Narrow(i, largest) == ((i + largest + 1) % (2 * (largest + 1))) - largest - 1

parseRetryAfterOfPast(header, now, unit, largest) ==
  CASE header.form = "seconds" -> Narrow(header.value * unit, largest)
    [] header.form = "date"    -> header.value - now
    [] OTHER                   -> 0

parseRetryAfter(header, now, unit, largest) ==
  CASE header.form = "seconds" /\ header.value >= 0 -> Narrow(header.value * unit, largest)
    [] header.form = "date" /\ header.value > now   -> header.value - now
    [] OTHER                                        -> 0
-----------------------------------------------------------------------------
(* What ErrorsTellWhatToDo of SESSender asks for.                          *)

Coded(code, address) ==
  {Classify(Error(status, code, address, network)) : status \in Statuses, network \in BOOLEAN}

KindsAgree ==
  /\ \A code \in DOMAIN codeKinds, address \in BOOLEAN : Cardinality(Coded(code, address)) = 1
  /\ \A status \in Statuses, code \in {"none", "other"}, address, network \in BOOLEAN :
       LET kind == Classify(Error(status, code, address, network)) IN
       /\ kind \in Refusals => status \in {401, 403, 429}
       /\ Retryable(kind) => status = 429 \/ status \in 500..599 \/ network
       /\ status = 429 \/ status \in 500..599 \/ (status = 0 /\ network) => Retryable(kind)

\* When the header asks to be called again, in units from now.
Instant(header, now, unit) ==
  CASE header.form = "seconds" /\ header.value >= 0 -> now + header.value * unit
    [] header.form = "date"                         -> header.value
    [] OTHER                                        -> now

Headers == [form : {"none", "invalid", "seconds", "date"}, value : HeaderValues]

NeverTooEarly ==
  \A header \in Headers, now \in ClockReadings,
     unit \in UnitsPerSecond, largest \in LargestDurations :
    LET due  == Instant(header, now, unit)
        wait == parseRetryAfter(header, now, unit, largest) IN
    due - now <= largest => wait >= 0 /\ (now + wait = due \/ (due < now /\ wait = 0))
=============================================================================
