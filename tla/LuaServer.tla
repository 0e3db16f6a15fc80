----------------------------- MODULE LuaServer ------------------------------
(***************************************************************************)
(* The web server's main loop (src/tek/class/server.lua, httpd.lua, as     *)
(* src/bin/webserver.lua runs it in a Lua task, without copas): interval   *)
(* functions, that are called in every turn when they are due, one of      *)
(* which looks whether the server is to be aborted; and a wait for clients *)
(* until the next of them is due.                                          *)
(*                                                                         *)
(* What interval functions and requests do is up to the application.  Time *)
(* is counted in the smallest interval; the clock is never put back or     *)
(* forward.  The program has the date for the time, and a date for a time  *)
(* that never comes, NO_TIMEOUT, which the clock gets to in May 2033.      *)
(***************************************************************************)
EXTENDS ServerIds

CONSTANTS
  None,
  Delay,    (* of intervals; functions that run once may do so at once      *)
  MaxLag,   (* bound on the time that a turn takes beside the wait          *)
  MaxHorizon  (* stands for any time until NO_TIMEOUT that is longer than   *)
              (* the intervals are                                          *)

VARIABLES
  at,         (* "init"; "turn", "pass", "call", "wait": in the loop; "end" *)
  status,     (* self.Status = "run"                                        *)
  aborted,    (* the task has been sent the signal "t" or "a"               *)
  intervals,  (* self.Intervals: the kind of function, its interval, and in *)
              (* how much time it is due                                    *)
  due,        (* those in the copy that are due and have not been called;   *)
              (* kept, if they are still in self.Intervals                  *)
  cur,        (* the function that is called, or None: of a request         *)
  lag,        (* time since the intervals were looked at                    *)
  wait,       (* time until socket.select returns, or None                  *)
  horizon     (* time until the clock is at NO_TIMEOUT                      *)

srvvars == <<at, status, aborted, intervals, pool, due, cur, lag, wait, horizon>>

(* self:checkAbort *)
Abort == 1

Interval(kind, every, left) == [kind |-> kind, every |-> every, left |-> left]

InitAt(place) ==
  /\ at = place /\ status = FALSE /\ aborted = FALSE
  /\ intervals = [id \in {Abort} |-> Interval("abort", 1, 1)]
  /\ pool = [ids |-> {Abort}, next |-> 2, num |-> 1]
  /\ due = <<>> /\ cur = None
  /\ lag = 0 /\ wait = None

(* The server is started before that time or after it. *)
ServerInit == InitAt("init") /\ horizon \in -MaxLag..MaxHorizon
-----------------------------------------------------------------------------
(* removeInterval.  A function that is due is called all the same. *)
Remove(id) ==
  IF id \in DOMAIN intervals
  THEN /\ intervals' = [i \in DOMAIN intervals \ {id} |-> intervals[i]]
       /\ pool' = FreeId(pool, id)
       /\ due' = [i \in DOMAIN due |->
                    IF i = id THEN [due[i] EXCEPT !.kept = FALSE] ELSE due[i]]
  ELSE UNCHANGED <<intervals, pool, due>>
-----------------------------------------------------------------------------
(* What the application does: before it runs the server, and in functions  *)
(* of intervals and requests.                                              *)
Application == at \in {"init", "call"}

Register(kind, every, left) ==
  /\ Application /\ pool.next <= MaxIds
  /\ pool' = AllocId(pool)
  /\ intervals' = [id \in DOMAIN intervals \cup {pool.next} |->
       IF id = pool.next THEN Interval(kind, every, left) ELSE intervals[id]]
  /\ UNCHANGED <<at, status, aborted, due, cur, lag, wait, horizon>>

RegisterInterval(every) == Register("user", every, every)
RegisterOnce(delay) == Register("once", 1, delay)

RemoveInterval(id) ==
  /\ Application /\ id # Abort /\ id \in DOMAIN intervals
  /\ Remove(id)
  /\ UNCHANGED <<at, status, aborted, cur, lag, wait, horizon>>

(* To a state other than "run".  The interval of a delay is never removed. *)
SetServerState ==
  /\ Application
  /\ status' = FALSE
  /\ UNCHANGED <<at, aborted, intervals, pool, due, cur, lag, wait, horizon>>

SetServerStateLater(delay) == Register("state", delay, delay)

(* The parent aborts or terminates the task. *)
Ask ==
  /\ ~aborted /\ aborted' = TRUE
  /\ UNCHANGED <<at, status, intervals, pool, due, cur, lag, wait, horizon>>
-----------------------------------------------------------------------------
Run ==
  /\ at = "init"
  /\ at' = "turn" /\ status' = TRUE
  /\ UNCHANGED <<aborted, intervals, pool, due, cur, lag, wait, horizon>>

Leave ==
  /\ at = "turn" /\ ~status
  /\ at' = "end"
  /\ UNCHANGED <<status, aborted, intervals, pool, due, cur, lag, wait, horizon>>

(* expireIntervals looks at the clock, at a copy of the intervals, ... *)
Expire ==
  /\ at = "turn" /\ status
  /\ at' = "pass" /\ lag' = 0
  /\ due' = [id \in {i \in DOMAIN intervals : intervals[i].left <= 0} |->
               [kind |-> intervals[id].kind, every |-> intervals[id].every,
                kept |-> TRUE]]
  /\ UNCHANGED <<status, aborted, intervals, pool, cur, wait, horizon>>

(* Mutant: an interval that was called stays due until the next turn. *)
RenewNever(id) == intervals' = intervals

(* When the function is due next; it counts from this turn. *)
Renew(id) ==
  intervals' = IF due[id].kept
               THEN [intervals EXCEPT ![id].left = due[id].every - lag]
               ELSE intervals

(* ... and calls the functions that are due, in any order: ... *)
Call(id) ==
  /\ at = "pass" /\ id \in DOMAIN due
  /\ Renew(id)
  /\ due' = [i \in DOMAIN due \ {id} |-> due[i]]
  /\ CASE due[id].kind = "abort" ->
            status' = (status /\ ~aborted) /\ aborted' = FALSE /\ UNCHANGED <<at, cur>>
       [] due[id].kind = "state" ->
            status' = FALSE /\ UNCHANGED <<at, cur, aborted>>
       [] OTHER ->
            /\ at' = "call" /\ cur' = [id |-> id, kind |-> due[id].kind]
            /\ UNCHANGED <<status, aborted>>
  /\ UNCHANGED <<pool, lag, wait, horizon>>

(* ... that of registerOnce removes the interval by its id then.           *)
Return ==
  /\ at = "call" /\ cur # None
  /\ at' = "pass" /\ cur' = None
  /\ IF cur.kind = "once" THEN Remove(cur.id) ELSE UNCHANGED <<intervals, pool, due>>
  /\ UNCHANGED <<status, aborted, lag, wait, horizon>>

(* Nothing is due before NO_TIMEOUT: all that is left is not less. *)
Beyond == \A id \in DOMAIN intervals : horizon <= intervals[id].left

(* Mutant: the time to wait is since the functions have returned. *)
EndOfPassNow ==
  /\ at = "pass" /\ due = <<>>
  /\ at' = "wait"
  /\ wait' = LET next == Min({intervals[id].left : id \in DOMAIN intervals})
             IN IF next < horizon /\ next >= 0 THEN next ELSE None
  /\ UNCHANGED <<status, aborted, intervals, pool, due, cur, lag, horizon>>

(* The time to wait is since the intervals were looked at.  It is nil, and *)
(* the wait is without end, if it would be negative, and if nothing is due *)
(* before NO_TIMEOUT.                                                      *)
EndOfPass ==
  /\ at = "pass" /\ due = <<>>
  /\ at' = "wait"
  /\ wait' = LET next == Min({intervals[id].left : id \in DOMAIN intervals})
             IN IF next < horizon /\ next + lag >= 0 THEN next + lag ELSE None
  /\ UNCHANGED <<status, aborted, intervals, pool, due, cur, lag, horizon>>

TimesOut ==
  /\ at = "wait" /\ wait = 0
  /\ at' = "turn" /\ wait' = None
  /\ UNCHANGED <<status, aborted, intervals, pool, due, cur, lag, horizon>>

(* socket.select returns for a client, who is served in handleFDs.         *)
Accept ==
  /\ at = "wait"
  /\ at' = "call" /\ wait' = None
  /\ UNCHANGED <<status, aborted, intervals, pool, due, cur, lag, horizon>>

EndOfRequest ==
  /\ at = "call" /\ cur = None
  /\ at' = "turn"
  /\ UNCHANGED <<status, aborted, intervals, pool, due, cur, lag, wait, horizon>>

(* Time goes on; but whoever can run does so soon.  A time until           *)
(* NO_TIMEOUT that is longer than the intervals may still be after it.     *)
Tick ==
  /\ at \notin {"init", "end"}
  /\ \/ at = "wait" /\ wait # 0 /\ UNCHANGED lag
        /\ wait' = IF wait = None THEN None ELSE wait - 1
     \/ (at # "wait" \/ wait = 0) /\ lag < MaxLag /\ lag' = lag + 1 /\ UNCHANGED wait
  /\ intervals' = [id \in DOMAIN intervals |->
       [intervals[id] EXCEPT !.left = Max({@ - 1, -MaxLag})]]
  /\ \/ horizon' = Max({horizon - 1, -MaxLag})
     \/ horizon = MaxHorizon /\ UNCHANGED horizon
  /\ UNCHANGED <<at, status, aborted, pool, due, cur>>

ServerStep ==
  Run \/ Leave \/ Expire \/ (\E id \in DOMAIN due : Call(id))
    \/ Return \/ EndOfPass \/ TimesOut \/ EndOfRequest

ApplicationStep ==
  \/ \E d \in Delay : RegisterInterval(d) \/ SetServerStateLater(d)
  \/ \E d \in Delay \cup {0} : RegisterOnce(d)
  \/ \E id \in pool.ids : RemoveInterval(id)
  \/ SetServerState

ServerNext == ServerStep \/ ApplicationStep \/ Ask \/ Accept \/ Tick

Spec == ServerInit /\ [][ServerNext]_srvvars

(* The server's functions return, and time goes on; but nobody has to live *)
(* to see NO_TIMEOUT.                                                      *)
Fairness ==
  /\ WF_srvvars(ServerStep)
  /\ WF_srvvars(Tick /\ (horizon = MaxHorizon => UNCHANGED horizon))

FairSpec == Spec /\ Fairness
-----------------------------------------------------------------------------
TypeOK ==
  /\ at \in {"init", "turn", "pass", "call", "wait", "end"}
  /\ status \in BOOLEAN /\ aborted \in BOOLEAN
  /\ pool.ids \subseteq 1..MaxIds /\ pool.num \in 0..MaxIds
  /\ DOMAIN due \subseteq 1..MaxIds
  /\ lag \in 0..MaxLag /\ wait \in {None} \cup Nat
  /\ horizon \in -MaxLag..MaxHorizon

(* Whatever is registered and removed, in whatever function: no interval   *)
(* is registered under the id of another, the check for abortion is always *)
(* among them, and the server does not wait without end, unless nothing is *)
(* due before NO_TIMEOUT.                                                  *)
IntervalsAreKept ==
  /\ DOMAIN intervals = pool.ids /\ IsFree(pool)
  /\ intervals[Abort].kind = "abort"
  /\ at = "wait" /\ wait = None => Beyond

(* A server whose state is set, or whose task is aborted, has to end.  It  *)
(* does, unless its application sets the state "run" again, or it waits    *)
(* without end, as nothing is due before NO_TIMEOUT: then only a client    *)
(* gets it to look at its state or for abortion.                           *)
HasToEnd == at \notin {"init", "end"} /\ (aborted \/ ~status)
WaitsForClients == at = "wait" /\ wait = None /\ Beyond
=============================================================================
