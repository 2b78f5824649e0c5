------------------------------ MODULE ResetLabel ------------------------------
(***************************************************************************)
(* The instant a quota is reset reaches the user as text: formatCountdown  *)
(* of quota-collector.ts gives the minutes left and the time of day, and   *)
(* parseResetTimeInfo of agent-quota-utils.ts makes the day of it again    *)
(* from the minutes, later, when the text is shown.  The text is as old as *)
(* the answer of /status it came with.                                     *)
(*                                                                         *)
(* Time is in ticks, Minute of them to a minute and Day minutes to a day.  *)
(***************************************************************************)
EXTENDS Integers

CONSTANTS
  Minute, Day,
  MaxAge,    \* ticks from the answer to its being shown
  MaxClock   \* bound: ticks

\* A text is shown for less than a day, as the page asks every few minutes.
ASSUME ResetLabelAssumption ==
  /\ {Minute, Day, MaxAge, MaxClock} \subseteq Nat \ {0}
  /\ MaxAge + Minute <= Minute * Day

VARIABLES
  clock,
  resetAt,   \* the reset of the reading
  text,      \* [minutes, at |-> minute of the day, made |-> tick], or NoText
  label      \* [days, at] as shown, or NoLabel

labelVars == <<clock, resetAt, text, label>>

NoText == [minutes |-> -1, at |-> 0, made |-> 0]
NoLabel == [days |-> -1, at |-> 0]

DayOf(t) == (t \div Minute) \div Day
MinuteOfDay(t) == (t \div Minute) % Day

LabelInit ==
  /\ clock \in 0..(Minute * Day - 1) /\ resetAt \in 0..MaxClock
  /\ text = NoText /\ label = NoLabel

MinutesLeft(ms) == (ms + Minute - 1) \div Minute

\* A reading whose window is over says "ready" and gives no time.
FormatCountdown ==
  /\ text' = IF resetAt <= clock THEN NoText
             ELSE [minutes |-> MinutesLeft(resetAt - clock), at |-> MinuteOfDay(resetAt), made |-> clock]
  /\ UNCHANGED <<clock, resetAt, label>>

ParseResetTimeInfo ==
  /\ text # NoText /\ clock - text.made <= MaxAge
  /\ label' = [days |-> DayOf(clock + text.minutes * Minute) - DayOf(clock), at |-> text.at]
  /\ UNCHANGED <<clock, resetAt, text>>

LabelTick == clock < MaxClock /\ clock' = clock + 1 /\ label' = NoLabel /\ UNCHANGED <<resetAt, text>>

LabelNext == FormatCountdown \/ ParseResetTimeInfo \/ LabelTick

(***************************************************************************)
(* Properties.                                                             *)
(***************************************************************************)

\* The day shown is the day of the reset, and a later one only if the reset
\* comes so shortly before midnight that the rounding and the age of the
\* text lead past it; it is never too early.
DayIsRight ==
  label # NoLabel =>
    /\ label.at = MinuteOfDay(resetAt)
    /\ DayOf(clock) + label.days \in {DayOf(resetAt), DayOf(resetAt + Minute - 1 + MaxAge)}
=============================================================================
