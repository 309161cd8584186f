------------------------------- MODULE ZsWait --------------------------------
(***************************************************************************)
(* struct zs__wait of lib/zslib.c: readers and timers are registered under *)
(* ascending numbers, and zs__wait_do returns the number of one that is    *)
(* ready, as pure operators.                                               *)
(***************************************************************************)
EXTENDS Integers, SequencesExt

CONSTANTS
  Files,             \* what may be waited for
  Dues,              \* the times of timers, <<seconds, microseconds>>
  MaxRegistrations   \* bound of the inputs MatchesReference looks at

PerSecond == 1000000   \* microseconds

ASSUME WaitAssumption ==
  /\ IsFiniteSet(Files)
  /\ Dues \subseteq Nat \X (0 .. PerSecond - 1)
  /\ MaxRegistrations \in Nat

(* zs__wait_create *)
Created == [max |-> 0, timer |-> 0, due |-> <<0, 0>>, readers |-> <<>>]

Sooner(d, e) == d[1] < e[1] \/ (d[1] = e[1] /\ d[2] < e[2])

(* Mutant of AddTimer: the last timer of the earliest ones is kept. *)
AddTimerLast(w, due) ==
  LET n == w.max + 1
  IN IF w.timer = 0 \/ ~Sooner(w.due, due)
       THEN [w EXCEPT !.max = n, !.timer = n, !.due = due]
       ELSE [w EXCEPT !.max = n]

(* zs__wait_add_timer: only the earliest timer is kept; each has a number. *)
AddTimer(w, due) ==
  LET n == w.max + 1
  IN IF w.timer = 0 \/ Sooner(due, w.due)
       THEN [w EXCEPT !.max = n, !.timer = n, !.due = due]
       ELSE [w EXCEPT !.max = n]

(* zs__wait_add_stream_reader of a stream with a descriptor *)
AddReader(w, file) ==
  LET n == w.max + 1
  IN [w EXCEPT !.max = n, !.readers = Append(@, [number |-> n, fd |-> file])]

(***************************************************************************)
(* zs__wait_do: select, for the time of the timer if there is one; then    *)
(* the first element of the list whose descriptor is ready, else the       *)
(* timer.  Returns(w, ready) is what it returns when select has returned   *)
(* with the files in ready; with neither a file nor a timer select blocks. *)
(***************************************************************************)
Blocks(w, ready) == w.timer = 0 /\ \A e \in Range(w.readers) : e.fd \notin ready

Returns(w, ready) ==
  LET hit == SelectInSeq(w.readers, LAMBDA e : e.fd \in ready)
  IN IF hit = 0 THEN w.timer ELSE w.readers[hit].number

-----------------------------------------------------------------------------
(***************************************************************************)
(* The reference: after any registrations zs__wait_do tells the place of   *)
(* the first reader that is ready; if none is, of the timer with the least *)
(* time, the first of equal ones; it blocks when there is neither.  So the *)
(* number tells the caller which registration it is about, and that one    *)
(* has really happened.                                                    *)
(***************************************************************************)
Registrations == ({"timer"} \X Dues) \cup ({"reader"} \X Files)

Register(w, r) == IF r[1] = "timer" THEN AddTimer(w, r[2]) ELSE AddReader(w, r[2])

Registered(rs) ==
  LET after[n \in 0 .. Len(rs)] == IF n = 0 THEN Created ELSE Register(after[n - 1], rs[n])
  IN after[Len(rs)]

Micros(due) == PerSecond * due[1] + due[2]

Reference(rs, ready) ==
  LET isReady == {i \in DOMAIN rs : rs[i][1] = "reader" /\ rs[i][2] \in ready}
      timers  == {i \in DOMAIN rs : rs[i][1] = "timer"}
      soonest == {i \in timers : \A j \in timers : Micros(rs[i][2]) <= Micros(rs[j][2])}
  IN IF isReady # {} THEN Min(isReady) ELSE IF timers # {} THEN Min(soonest) ELSE 0

MatchesReference ==
  \A rs \in BoundedSeq(Registrations, MaxRegistrations), ready \in SUBSET Files :
    LET w == Registered(rs)
    IN /\ Blocks(w, ready) <=> Reference(rs, ready) = 0
       /\ ~Blocks(w, ready) => Returns(w, ready) = Reference(rs, ready)
=============================================================================
