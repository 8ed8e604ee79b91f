------------------------------ MODULE MCGroupOps ------------------------------
(* Small instances of GroupOps for TLC. *)
EXTENDS GroupOps, TLC

CONSTANTS a1, a2, a3, a4, a5, p1, p1b, p2, p3, p4, p5, bad, r1, r2, o1, o2

MCAccountOf ==
    p1 :> a1 @@ p1b :> a1 @@ p2 :> a2 @@ p3 :> a3 @@ p4 :> a4 @@ p5 :> a5 @@ bad :> NoAccount

\* A list of five accounts, one of them written in two ways and one number that
\* is none; two lists to decide on; and one that names nobody.
Long == <<<<p1, p1b, p2, p3, p4, p5>>, <<>>>>
Few == <<<<p2, bad, p1, p2>>, <<>>>>
Both == <<<<p1, p2>>, <<p1b>>>>
Short == <<<<bad>>, <<>>>>
MCInputs == {Long, Few, Both, Short}

MCSymmetry == Permutations({r1, r2}) \cup Permutations({o1, o2})

\* Bound: what becomes of the participants of a request concerns nobody else.
\* Requests that name none only create groups, and once they are past the check
\* they are answered before anything else happens.
CreatesOnly(r) ==
    /\ req'[r].kind \in {"create", "none"}
    /\ req'[r].unsure = {} /\ req'[r].limit = -1 /\ ~req'[r].cancelled
    /\ req[r].step \in {"create", "wrap", "answer"} =>
          /\ UNCHANGED cooldownVars
          /\ \A other \in Requests \ {r} : UNCHANGED req[other]

\* A request that names some is made of a session paired a while ago and has the
\* gateway to itself, but that its session may be logged out.
HasGateway(r) ==
    /\ \A other \in Requests \ {r} : req'[other].step = "idle"
    /\ now' = 2 /\ exits' + faults' = 0 /\ groups' <= 1
    /\ cur' # NoObject /\ handler'[cur'] = "none" /\ ~replacing'
    /\ req'[r].object = cur'
    /\ req'[r].input = Long => req'[r].kind = "add"
    /\ req[r].step = "idle" => groups = 0 /\ known = {"pair"} /\ saved = {"pair"}

Alone ==
    \A r \in Requests :
        CASE Short \in {req[r].input, req'[r].input} -> CreatesOnly(r)
          [] req'[r].input \in {Long, Few, Both} -> HasGateway(r)
          [] OTHER -> TRUE

\* Bounds: a session is logged out some time after it was paired, or while a
\* request names participants; the run begins with the first pairing and ends with
\* the third group; a request checks the cooldown in the unit of time it began in;
\* two requests at a time meet no exit and no failed call.
Bounded ==
    /\ Alone
    /\ linked /\ ~linked' /\ cur # NoObject =>
          joinedAt < now \/ \E r \in Requests : req[r].input = Few
    /\ now' > now \/ exits' > exits => joinedAt > 0
    /\ now' > now => \A r \in Requests : req[r].step # "check"
    /\ groups = 3 => UNCHANGED cooldownVars
    /\ exits' + faults' > 0 => \E r \in Requests : req'[r].step = "idle"

\* What an object nobody refers to holds makes no difference.
MCView ==
    LET Told(f) == [o \in Objects |-> IF o = cur \/ Held(o) THEN f[o] ELSE 0]
    IN  <<now, cur, Told(pairedAt), Told(lastGroupCreate), loggedIn, replacing, handler, row,
          writes, linked, exits, faults, history, req>>
===============================================================================
