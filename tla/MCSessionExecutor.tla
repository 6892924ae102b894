------------------------- MODULE MCSessionExecutor --------------------------
(***************************************************************************)
(* Small plans for TLC.  Each is the shortest that reaches the paths its   *)
(* runs are about.                                                         *)
(***************************************************************************)
EXTENDS SessionExecutor

\* Every switch off; the plans below turn on what they exercise.
Plain == [mode |-> "dso", frames |-> 1, tiles |-> 1, dated |-> FALSE,
          park |-> FALSE, unpark |-> TRUE,
          recenterFirst |-> FALSE, recenterEvery |-> 0, maxAttempts |-> 1,
          recenterEachTile |-> FALSE, focusFirst |-> FALSE, focusEvery |-> 0,
          focusEachTile |-> FALSE, corrections |-> FALSE, calibrate |-> FALSE]

Recentred == [Plain EXCEPT !.frames = 2, !.recenterFirst = TRUE, !.focusEvery = 1]
Parked == [Plain EXCEPT !.park = TRUE]
Dated == [Plain EXCEPT !.dated = TRUE]
Mosaic == [Plain EXCEPT !.mode = "mosaic", !.frames = 2, !.tiles = 2,
                        !.recenterFirst = TRUE, !.focusFirst = TRUE, !.focusEachTile = TRUE]
Planet == [Plain EXCEPT !.mode = "planetary", !.frames = 2, !.focusFirst = TRUE,
                        !.corrections = TRUE, !.calibrate = TRUE]

CalendarPlan == <<Recentred, Parked, Dated>>
MixedPlan == <<Mosaic, [Planet EXCEPT !.park = TRUE], Dated>>
DatedPlan == <<Plain, Plain, Dated>>

Block1Hides == {Targets, {t \in Targets : t[1] # 1}}
HideOrAll == {Targets, {}, {t \in Targets : t[1] # 1}}
AnySky == {Targets, {}} \cup {{t \in Targets : t[1] # b} : b \in {1, 2}}
ClearSky == {Targets}
=============================================================================
