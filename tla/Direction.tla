------------------------------ MODULE Direction ------------------------------
(***************************************************************************)
(* Generator.candidate, internal/app/generateloop/generate.go: the radius  *)
(* of a direction is corrected by bisection on the detour factor, a loop   *)
(* of module Boucle being glued together at each try.                      *)
(*                                                                         *)
(* Factors are counted in 1/160, where the midpoints of the code are       *)
(* integers. What a try measures is any loop of the network: the terrain   *)
(* is not told in advance. It is uniform as long as one factor f explains  *)
(* the tries: laid out for a factor d, a loop measures DistanceM * f / d,  *)
(* give or take Bruit.                                                     *)
(***************************************************************************)
EXTENDS Boucle, FiniteSetsExt

CONSTANTS
  DetourLo, DetourHi, DetourInitial,    \* 0.8, 2.5 and 1.3
  MaxRadiusIterations,
  DistanceM,
  Tolerance,        \* req.Tolerance, in hundredths
  Bruit             \* how far a try may measure from a uniform terrain

\* The width that n halvings bring down to one.
Moities[n \in Nat] == IF n = 0 THEN 1 ELSE 2 * Moities[n - 1]
ASSUME DetoursAssumption ==
  /\ DetourLo \in Nat \ {0} /\ DetourHi \in Nat /\ DetourInitial \in Nat
  /\ DetourInitial - DetourLo >= Moities[MaxRadiusIterations]
  /\ DetourHi - DetourInitial >= Moities[MaxRadiusIterations]
  /\ MaxRadiusIterations \in Nat \ {0}
  /\ DistanceM \in Nat \ {0} /\ Tolerance \in 1 .. 50 /\ Bruit \in Nat
\* As the constants of the code are, no terrain is left between the bounds, once
\* all the corrections are made, nor beside one that never moved: w is what may
\* separate them then, the tries measuring a tenth off or more.
ASSUME FinesseAssumption ==
  \A w \in 1 .. DetourHi : LET r == (w - 1) * Moities[MaxRadiusIterations - 1] IN
    /\ r < DetourInitial - DetourLo => 9 * w + 10 * Bruit <= DetourLo
    /\ r < DetourHi - DetourInitial =>
         9 * w + 20 * Bruit <= 2 * DetourInitial /\ 11 * w + 10 * Bruit <= DetourHi

VARIABLES
  iter,             \* i
  lo, hi, detour,
  verdict,          \* candidate: "aucun", "trouve", "ErrNoLoopFound" or "err"
  essais,           \* history: the factors tried, and whether they came out too long
  terrains          \* history: the interval of the factors that explain them

bisection == <<iter, lo, hi, detour, verdict, essais, terrains>>
varsDirection == <<varsBoucle, bisection>>

Aucun == <<1, 0>>
Distance(a, c) == IF a > c THEN a - c ELSE c - a

InitDirection ==
  /\ InitBoucle
  /\ iter = 0
  /\ lo = DetourLo /\ hi = DetourHi /\ detour = DetourInitial
  /\ verdict = "aucun"
  /\ essais = {}
  /\ terrains = <<DetourLo, DetourHi>>

EnCours == verdict = "aucun" /\ iter < MaxRadiusIterations
DansTolerance == 100 * Distance(loop.lengthM, DistanceM) <= Tolerance * DistanceM

\* tryLoop, a step of it.
Essayer ==
  /\ EnCours
  /\ NextBoucle
  /\ UNCHANGED bisection
\* tryLoop fails: the direction is given up at once.
Rater ==
  /\ EnCours /\ fin \in {"err", "ErrNoLoopFound"}
  /\ verdict' = fin
  /\ UNCHANGED <<varsBoucle, iter, lo, hi, detour, essais, terrains>>
Retenir ==
  /\ EnCours /\ fin = "ok" /\ DansTolerance
  /\ verdict' = "trouve"
  /\ UNCHANGED <<varsBoucle, iter, lo, hi, detour, essais, terrains>>

\* The next call of tryLoop starts from nothing.
Recommencer ==
  /\ kWp' = 0 /\ current' = start /\ used' = {} /\ loop' = Vide(start) /\ fin' = "aucune"
  /\ UNCHANGED start
Mesurer(long) ==
  /\ essais' = essais \cup {<<detour, long>>}
  /\ LET m == loop.lengthM * detour
         a == Max({terrains[1], (m + DistanceM - 1) \div DistanceM - Bruit})
         z == Min({terrains[2], m \div DistanceM + Bruit})
     IN  terrains' = IF a > z THEN Aucun ELSE <<a, z>>
\* Too long: the radius must shrink, so the factor must grow. Mutant: the
\* bounds are swapped.
CorrigerInverse(long) ==
  /\ lo' = IF long THEN lo ELSE detour
  /\ hi' = IF long THEN detour ELSE hi
  /\ detour' = (lo' + hi') \div 2
Corriger(long) ==
  /\ lo' = IF long THEN detour ELSE lo
  /\ hi' = IF long THEN hi ELSE detour
  /\ detour' = (lo' + hi') \div 2
Reprendre ==
  /\ EnCours /\ fin = "ok" /\ ~DansTolerance
  /\ LET long == loop.lengthM > DistanceM IN Corriger(long) /\ Mesurer(long)
  /\ iter' = iter + 1
  /\ Recommencer
  /\ UNCHANGED verdict
Epuiser ==
  /\ verdict = "aucun" /\ iter = MaxRadiusIterations
  /\ verdict' = "ErrNoLoopFound"
  /\ UNCHANGED <<varsBoucle, iter, lo, hi, detour, essais, terrains>>

FinDirection == verdict # "aucun" /\ UNCHANGED varsDirection
NextDirection == Essayer \/ Rater \/ Retenir \/ Reprendre \/ Epuiser \/ FinDirection
SpecDirection == InitDirection /\ [][NextDirection]_varsDirection

----------------------------------------------------------------------------
\* The interval only shrinks, keeps the next try inside, and has on its left
\* the tries that came out too long, on its right those too short: no radius
\* is tried twice, and none outside detourLo .. detourHi (generate.go:150-173).
Encadrement ==
  /\ DetourLo <= lo /\ lo <= detour /\ detour <= hi /\ hi <= DetourHi
  /\ \A e \in essais : IF e[2] THEN e[1] <= lo ELSE e[1] >= hi
  /\ lo < hi
  /\ \A e \in essais : e[1] # detour

\* A uniform enough terrain whose factor is within the bounds always gets its
\* loop from the default tolerance on, unless a search fails: five iterations
\* are enough, even when a measure misleads the bisection
\* (generate.go:37-39, 176-181).
Converge ==
  Tolerance >= 10 /\ verdict = "ErrNoLoopFound" => terrains = Aucun

\* The bisection never loses nor repeats a radius, and goes on long enough.
BissectionJuste == Encadrement /\ Converge

----------------------------------------------------------------------------
\* The inductive invariant: the factor to try is still as far from both bounds
\* as the corrections to come will halve.
Largeur ==
  /\ iter \in 0 .. MaxRadiusIterations
  /\ lo \in Nat /\ hi \in Nat /\ detour \in Nat
  /\ detour - lo >= Moities[MaxRadiusIterations - iter]
  /\ hi - detour >= Moities[MaxRadiusIterations - iter]
  /\ \A e \in essais : e[1] \in Nat /\ e[2] \in BOOLEAN
IInvDirection == IInvBoucle /\ Largeur /\ Encadrement

\* Halving from the first correction on, and what the tries left of the terrain.
Resserree ==
  /\ iter = 0 => lo = DetourLo /\ hi = DetourHi /\ detour = DetourInitial
  /\ iter > 0 => LET r == (hi - lo - 1) * Moities[iter - 1] IN
       /\ detour = (lo + hi) \div 2
       /\ \/ hi <= DetourInitial /\ r < DetourInitial - DetourLo
          \/ DetourInitial <= lo /\ r < DetourHi - DetourInitial
Expliquee == terrains # Aucun =>
  /\ terrains \in Nat \X Nat
  /\ DetourLo <= terrains[1] /\ terrains[1] <= terrains[2] /\ terrains[2] <= DetourHi
  /\ Tolerance >= 10 => /\ lo = DetourLo \/ 11 * lo < 10 * (terrains[1] + Bruit)
                        /\ hi = DetourHi \/ 10 * terrains[2] < 9 * hi + 10 * Bruit
IInvConverge ==
  /\ IInvDirection /\ Resserree /\ Expliquee
  /\ verdict = "ErrNoLoopFound" => iter = MaxRadiusIterations
=============================================================================
