--------------------------- MODULE AdaptiveDefense ---------------------------
(***************************************************************************)
(* Defence levels that follow a threat score, from ai_security/            *)
(* adaptive_defense.py.  Scores are hundredths; the history keeps the      *)
(* scores the average looks at (the trend is computed and not used).  A    *)
(* level stands for its strategy, which never differs from it.  The list   *)
(* of recent attacks and the report of effectiveness are left out.         *)
(***************************************************************************)
EXTENDS Integers, Sequences, SequencesExt

CONSTANTS Score,       \* the scores that are reported, in hundredths
          Window,      \* scores in the average: 10
          Cooldown     \* adaptation_cooldown, in steps of the clock

ASSUME DefenseAssumption ==
  Score \subseteq 0..100 /\ Window \in Nat \ {0} /\ Cooldown \in Nat

VARIABLES
  score,       \* threat_score
  history,     \* the last Window entries of threat_history
  level,       \* current_defense_level: NORMAL 0, CAUTION 1, WARNING 2, CRITICAL 3
  auto,        \* auto_adapt_enabled
  since        \* time.time() - last_adaptation_time, at most Cooldown

defenseVars == <<score, history, level, auto, since>>

DefenseInit ==
  /\ score = 0 /\ history = << >> /\ level = 0 /\ auto = TRUE /\ since = Cooldown

LastOf(seq, n) == SubSeq(seq, IF Len(seq) > n THEN Len(seq) - n + 1 ELSE 1, Len(seq))
AverageReaches(seq, hundredths) == FoldSeq(LAMBDA s, sum : s + sum, 0, seq) >= hundredths * Len(seq)

\* _determine_defense_level: the highest level whose score or average is reached.
\* The history is never empty here.
Determined(s, seq) ==
  CASE s >= 80 \/ AverageReaches(seq, 75) -> 3
    [] s < 80 /\ ~AverageReaches(seq, 75) /\ (s >= 60 \/ AverageReaches(seq, 50)) -> 2
    [] s < 60 /\ ~AverageReaches(seq, 50) /\ (s >= 40 \/ AverageReaches(seq, 30)) -> 1
    [] OTHER -> 0

\* The mistake LevelSettles rules out: every check restarts the cooldown.
CheckRestartsCooldown(s, seq) ==
  /\ since' = 0
  /\ level' = IF since < Cooldown THEN level ELSE Determined(s, seq)

\* _check_and_adapt: not within the cooldown of the last automatic change.
CheckAndAdapt(s, seq) ==
  IF since < Cooldown \/ Determined(s, seq) = level THEN UNCHANGED <<level, since>>
  ELSE level' = Determined(s, seq) /\ since' = 0

UpdateThreatLevel(s) ==
  /\ score' = s /\ history' = LastOf(Append(history, s), Window)
  /\ IF auto THEN CheckAndAdapt(s, history') ELSE UNCHANGED <<level, since>>
  /\ UNCHANGED auto

\* reset_to_normal forgets neither the history nor when the level last changed.
ResetToNormal == score' = 0 /\ level' = 0 /\ UNCHANGED <<history, auto, since>>

SetAutoAdaptation == auto' = ~auto /\ UNCHANGED <<score, history, level, since>>

Second == since < Cooldown /\ since' = since + 1 /\ UNCHANGED <<score, history, level, auto>>

DefenseNext ==
  \/ \E s \in Score : UpdateThreatLevel(s)
  \/ ResetToNormal \/ SetAutoAdaptation \/ Second

-----------------------------------------------------------------------------
\* The level follows the threat: when the score stays the same from some time on, and
\* adaptation stays enabled, the level settles at the one the score deserves,
\* whatever came before, resets by hand and changes within the cooldown included.  It
\* is the average that decides in the end: a lasting 75 is CRITICAL, not 80
\* (adaptive_defense.py:155, 179-186).
Deserved(s) == CASE s >= 75 -> 3 [] 50 <= s /\ s < 75 -> 2 [] 30 <= s /\ s < 50 -> 1 [] OTHER -> 0
LevelSettles == \A s \in Score : <>[](auto /\ score = s) => <>[](level = Deserved(s))
=============================================================================
