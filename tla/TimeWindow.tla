------------------------------ MODULE TimeWindow -------------------------------
(***************************************************************************)
(* The start and end of a search: how services/_time_window.py classifies  *)
(* what a caller writes, what olog_time, alarm_time and archiver_time make *)
(* of it, and how the three servers read what is sent.                     *)
(*                                                                         *)
(* The hazard is a value that a server does not understand: Olog and the   *)
(* Alarm Logger take it for the present moment, and answer with an empty   *)
(* list and no error.  A time is a number of half milliseconds, for the    *)
(* wire has whole ones.                                                    *)
(***************************************************************************)
EXTENDS Integers

CONSTANTS Times,     \* instants a caller may write
          Amounts,   \* durations before the present
          Now,       \* of the server's clock
          Zone       \* the zone a server that is given none assumes

Planes == {"olog", "alarm", "archiver"}
Absolute == {"zoned", "naive"}
Relative == {"amount", "now"}

(* What cannot be taken at its word: blanks, months and years, a compound  *)
(* amount, a bare m, millis, an epoch in seconds, any other text.          *)
Traps == {"blank", "months", "compound", "millis", "junk"}
Values ==
  [form : Absolute, t : Times] \union [form : {"amount"}, t : Amounts]
  \union [form : {"now", "unset"} \union Traps, t : {0}]

VARIABLES
  plane, from, to,
  window    \* "unread", "sent" with the wire form, or "refused"

vars == <<plane, from, to, window>>

Unread == [kind |-> "unread"]
Refused(why) == [kind |-> "refused", why |-> why]

(* Only Olog's window may be left open.                                    *)
Given(p) == IF p = "olog" THEN Values ELSE {v \in Values : v.form # "unset"}

Init ==
  /\ plane \in Planes
  /\ from \in Given(plane)
  /\ to \in Given(plane)
  /\ window = Unread
-----------------------------------------------------------------------------
(* _as_utc: a naive value is taken as UTC.                                 *)
AsUTC(v) == v.form \in Absolute

(* classify_time_value does not raise.                                     *)
Readable(v) == v.form \in Absolute \union Relative

(* require_absolute_time, of the archiver alone.                           *)
Accepted(v) == Readable(v) /\ (plane = "archiver" => AsUTC(v))

(* format_iso_z and _format_wire; an amount passes through.                *)
Wire(v) ==
  IF AsUTC(v) THEN [form |-> IF plane = "olog" THEN "wall" ELSE "iso", t |-> v.t \div 2]
              ELSE [form |-> v.form, t |-> v.t]

(* Two wire values of one form and zone compare as their instants do.      *)
Swapped(v, w) == plane = "olog" /\ AsUTC(v) /\ AsUTC(w) /\ Wire(v).t > Wire(w).t

(* OlogClient._add_window; the two others need both ends.                  *)
Send ==
  /\ window = Unread
  /\ \A v \in {from, to} : v.form = "unset" \/ Accepted(v)
  /\ ~Swapped(from, to)
  /\ window' = [kind |-> "sent", from |-> Wire(from), to |-> Wire(to),
                tz |-> plane = "olog" /\ (AsUTC(from) \/ AsUTC(to))]
  /\ UNCHANGED <<plane, from, to>>

Refuse ==
  /\ window = Unread
  /\ window' = IF \E v \in {from, to} : v.form # "unset" /\ ~Accepted(v)
                 THEN Refused("unreadable") ELSE Refused("swapped")
  /\ \/ \E v \in {from, to} : v.form # "unset" /\ ~Accepted(v)
     \/ Swapped(from, to)
  /\ UNCHANGED <<plane, from, to>>

Next == Send \/ Refuse

Spec == Init /\ [][Next]_vars
-----------------------------------------------------------------------------
(* How a server reads a wire value: Olog's parser has only the wall clock, *)
(* the Alarm Logger's and the archiver's only ISO with a zone; the first   *)
(* two know amounts, and take all the rest for now.                        *)
Instant(w, tz) ==
  CASE w.form = "wall" /\ plane = "olog" -> 2 * w.t + (IF tz THEN 0 ELSE Zone)
    [] w.form = "iso" /\ plane # "olog" -> 2 * w.t
    [] w.form = "amount" /\ plane # "archiver" -> Now - w.t
    [] OTHER -> Now

(* What the caller means.                                                  *)
Meant(v) ==
  CASE v.form \in Absolute -> v.t
    [] v.form = "amount" -> Now - v.t
    [] v.form = "now" -> Now

(* The server looks at the window the caller meant, to the millisecond;    *)
(* what has no meaning is not sent.                                        *)
WindowMeans ==
  window.kind = "sent" =>
    /\ \A e \in {<<from, window.from>>, <<to, window.to>>} :
         e[1].form # "unset" =>
           /\ e[1].form \notin Traps
           /\ Instant(e[2], window.tz) \in Meant(e[1]) - 1 .. Meant(e[1])
    /\ plane = "archiver" => window.from.form = "iso" /\ window.to.form = "iso"

(* A window of Olog whose two ends are instants is never sent upside down, *)
(* for the answer would be an HTTP 401; one that can be is not refused.    *)
SwapNamed ==
  plane = "olog" /\ from.form \in Absolute /\ to.form \in Absolute =>
    /\ window.kind = "sent" => Instant(window.from, window.tz) <= Instant(window.to, window.tz)
    /\ window.kind = "refused" => Meant(from) > Meant(to)
=============================================================================
