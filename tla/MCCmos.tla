------------------------------- MODULE MCCmos -------------------------------
(***************************************************************************)
(* The CMOS at the turn of a century: four seconds around the change of    *)
(* every field, one guest CPU reading the time and two using the memory.   *)
(***************************************************************************)
EXTENDS Cmos

Moment(s, m, h, w, d, mo, y) ==
  [sec |-> s, min |-> m, hour |-> h, wday |-> w, mday |-> d, mon |-> mo, year |-> y]

MCClock == << Moment(58, 59, 23, 5, 31, 11, 99), Moment(59, 59, 23, 5, 31, 11, 99),
              Moment(0, 0, 0, 6, 1, 0, 100),     Moment(1, 0, 0, 6, 1, 0, 100) >>

=============================================================================
