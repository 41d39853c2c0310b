-------------------------------- MODULE Glob --------------------------------
(***************************************************************************)
(* matches_pattern (core/util.rs): the glob matcher of `read --find`.  It  *)
(* remembers the last star only, and the place in the name it is tried at. *)
(***************************************************************************)
EXTENDS Integers, Sequences

(* Where the scan stands in the name and the pattern, the last star (0:    *)
(* none), and up to where that star is taken to reach.                     *)
Place(n, p, star, reach) ==
    [name_index |-> n, pattern_index |-> p, star |-> star, star_match |-> reach]

(* A mutant: the star grows by one from where the scan stands.  *)
AdvanceFromHere(name, pattern, at) ==
    LET n == at.name_index
        p == at.pattern_index
    IN  IF n > Len(name) THEN at
        ELSE IF p <= Len(pattern) /\ (pattern[p] = "?" \/ pattern[p] = name[n])
        THEN Place(n + 1, p + 1, at.star, at.star_match)
        ELSE IF p <= Len(pattern) /\ pattern[p] = "*"
        THEN Place(n, p + 1, p, n)
        ELSE IF at.star # 0
        THEN Place(n + 1, at.star + 1, at.star, at.star_match)
        ELSE at

(* The loop goes from a place to the next; one it does not leave is where  *)
(* it stops.                                                               *)
Advance(name, pattern, at) ==
    LET n == at.name_index
        p == at.pattern_index
    IN  IF n > Len(name) THEN at
        ELSE IF p <= Len(pattern) /\ (pattern[p] = "?" \/ pattern[p] = name[n])
        THEN Place(n + 1, p + 1, at.star, at.star_match)
        ELSE IF p <= Len(pattern) /\ pattern[p] = "*"
        THEN Place(n, p + 1, p, n)
        ELSE IF at.star # 0
        THEN Place(at.star_match + 1, at.star + 1, at.star, at.star_match + 1)
        ELSE at

Places(name, pattern) ==
    {at \in [name_index : 1..(Len(name) + 1), pattern_index : 1..(Len(pattern) + 1),
             star : 0..Len(pattern), star_match : 0..(Len(name) + 1)] : at.star_match <= at.name_index}

MatchesPattern(name, pattern) ==
    LET end[at \in Places(name, pattern)] ==
            IF Advance(name, pattern, at) = at THEN at ELSE end[Advance(name, pattern, at)]
        last == end[Place(1, 1, 0, 0)]
    IN  /\ last.name_index > Len(name)
        /\ \A q \in last.pattern_index..Len(pattern) : pattern[q] = "*"

(* What a glob means: it cuts the name into one piece for each of its      *)
(* characters, of any length for a star, else of one character.            *)
Glob(name, pattern) ==
    \E cut \in [0..Len(pattern) -> 0..Len(name)] :
        /\ cut[0] = 0 /\ cut[Len(pattern)] = Len(name)
        /\ \A p \in 1..Len(pattern) :
              IF pattern[p] = "*" THEN cut[p - 1] <= cut[p]
              ELSE cut[p] = cut[p - 1] + 1 /\ pattern[p] \in {"?", name[cut[p]]}
=============================================================================
