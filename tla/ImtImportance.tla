---------------------------- MODULE ImtImportance ----------------------------
(***************************************************************************)
(* The importance map of the side-by-side sender and what is computed from *)
(* it (src/native/imt/src/imt_map.c, imt_qp.c, imt_sched.c, with their     *)
(* users mps_rvm_importance.c, mps_imt_rpicam_sbs_sender.c and             *)
(* mps_x264_encoder.c).  One map of tiles covers both eyes.  For every     *)
(* frame the matting network looks at the left eye and then at the right   *)
(* one; each call smooths ALL tiles of the map: those of its own eye       *)
(* towards a foreground or a background weight, those of the other eye     *)
(* towards the neutral weight.  The weights then choose the quantiser of a *)
(* macroblock, the protection of a chunk and the order of sending.         *)
(*                                                                         *)
(* Where the width of an eye is no multiple of the tile's, one column of   *)
(* tiles is the last of the left eye and the first of the right one, and   *)
(* both calls give it a foreground or a background weight.                 *)
(*                                                                         *)
(* What the network sees is external: `scene' is the set of tiles of an    *)
(* eye it finds in the foreground, the same in both eyes.  The weights     *)
(* are at their real scale; the picture is small.                          *)
(***************************************************************************)
EXTENDS Integers, FiniteSets, Sequences, FiniteSetsExt

CONSTANTS
    EyeWidth,      \* pixels of one eye, and of the frame's height
    EyeHeight,
    TileSize,      \* 32 in the sender
    MbSize,        \* 16 in the encoder
    MaxPayload,    \* IMT_DEFAULT_MAX_PAYLOAD: bytes of a chunk
    Scenes,        \* bound: what the network may find
    MaxChanges,    \* bound: how often the scene changes
    MaxFailures    \* bound: how often the network fails

VARIABLES weights, scene, eye, changes, failures

vars == <<weights, scene, eye, changes, failures>>

------------------------------------------------------------------------------
(* The grid of tiles. *)

CeilDiv(a, b) == (a + b - 1) \div b

SbsWidth  == 2 * EyeWidth
Cols      == CeilDiv(SbsWidth, TileSize)
Rows      == CeilDiv(EyeHeight, TileSize)
TileCount == Cols * Rows
Tiles     == 0 .. TileCount - 1

\* The columns the call for an eye goes through, by its offset in the frame.
Eyes == {"left", "right"}
FirstCol(e) == IF e = "left" THEN 0 ELSE EyeWidth \div TileSize
EndCol(e)   == IF e = "left" THEN CeilDiv(EyeWidth, TileSize) ELSE Cols
Sees(e, t)  == t % Cols \in FirstCol(e) .. EndCol(e) - 1

\* The tile of an eye that a tile of the map shows.
InEye(e, t) == <<t \div Cols, (t % Cols) - FirstCol(e)>>
EyeTiles    == UNION {{InEye(e, t) : t \in {u \in Tiles : Sees(e, u)}} : e \in Eyes}

SizesAssumption ==
    /\ {EyeWidth, EyeHeight, TileSize, MbSize, MaxPayload} \subseteq Nat \ {0}
    /\ Scenes \subseteq SUBSET EyeTiles /\ {} \in Scenes
    /\ MaxChanges \in Nat /\ MaxFailures \in Nat

------------------------------------------------------------------------------
(* Smoothing.  A weight or a sample of 0 counts as 1. *)

EmaShift == 3
Neutral    == 128
Foreground == 200
Background == 60

AtLeastOne(w) == IF w > 1 THEN w ELSE 1

Ema(old, sample) ==
    (AtLeastOne(old) * (2^EmaShift - 1) + AtLeastOne(sample)) \div 2^EmaShift

(* Defect: foreground and background are confused. *)
SampleInverted(e, t) ==
    IF ~Sees(e, t) THEN Neutral
    ELSE IF InEye(e, t) \in scene THEN Background ELSE Foreground

\* What a call for one eye gives a tile.
Sample(e, t) ==
    IF ~Sees(e, t) THEN Neutral
    ELSE IF InEye(e, t) \in scene THEN Foreground ELSE Background

------------------------------------------------------------------------------
(* Normalising by the mean of the map. *)

WeightSum == FoldSet(LAMBDA t, acc : AtLeastOne(weights[t]) + acc, 0, Tiles)

Mean == AtLeastOne((WeightSum + TileCount \div 2) \div TileCount)

Clamp(lo, hi, v) == IF v < lo THEN lo ELSE IF v > hi THEN hi ELSE v

Normalized(w, mean) ==
    Clamp(1, 255, (AtLeastOne(w) * 128) \div AtLeastOne(mean))

------------------------------------------------------------------------------
(* Quantiser offsets.  The table rounds -6 * log2(w / 128): its step d is  *)
(* taken by the weights up to the d-th of these thresholds.                *)

QpThresholds == <<241, 215, 191, 170, 152, 135, 120, 107, 95,
                  85, 76, 67, 60, 53, 47, 42, 38, 33>>

Qp(w) == Cardinality({d \in DOMAIN QpThresholds : w <= QpThresholds[d]}) - 6

QpOffset(w, mean) == Qp(Normalized(w, mean))

\* The middle of a macroblock on one axis, kept inside the picture, and the
\* tile there.
MbMiddle(mb, size) == Min({mb * MbSize + MbSize \div 2, size - 1})

MbTile(mbx, mby) ==
    Min({Min({MbMiddle(mby, EyeHeight) \div TileSize, Rows - 1}) * Cols
           + Min({MbMiddle(mbx, SbsWidth) \div TileSize, Cols - 1}),
         TileCount - 1})

Macroblocks == (0 .. CeilDiv(SbsWidth, MbSize) - 1)
                  \X (0 .. CeilDiv(EyeHeight, MbSize) - 1)

------------------------------------------------------------------------------
(* The protection of the chunks of a frame: each takes the weight of the   *)
(* tile under its middle byte.                                             *)

FrameSize  == 4 * SbsWidth * EyeHeight
ChunkCount == CeilDiv(FrameSize, MaxPayload)
Chunks     == 0 .. ChunkCount - 1

PayloadSize(c) == Min({FrameSize - c * MaxPayload, MaxPayload})

PixelTile(p) ==
    Min({((p \div SbsWidth) \div TileSize) * Cols + (p % SbsWidth) \div TileSize,
         TileCount - 1})

ChunkTile(c) ==
    PixelTile(Min({c * MaxPayload + PayloadSize(c) \div 2, FrameSize - 1}) \div 4)

------------------------------------------------------------------------------
(* The order of sending: a counting sort.  The tiles of a weight start     *)
(* where those of all greater weights end, and a forward scan gives each   *)
(* the next place of its weight.                                           *)

Start(w) == Cardinality({t \in Tiles : weights[t] > w})

Place(t) ==
    Start(weights[t]) + Cardinality({u \in 0 .. t - 1 : weights[u] = weights[t]})

------------------------------------------------------------------------------
(* The sender's loop. *)

NextEye(e) == IF e = "left" THEN "right" ELSE "left"

Init ==
    /\ weights = [t \in Tiles |-> Neutral]
    /\ scene \in Scenes
    /\ eye = "left"
    /\ changes = 0
    /\ failures = 0

Smooth(e) == [t \in Tiles |-> Ema(weights[t], Sample(e, t))]

\* The network looks at one eye of a frame and the map is smoothed.
UpdateMap ==
    /\ weights' = Smooth(eye)
    /\ eye' = NextEye(eye)
    /\ UNCHANGED <<scene, changes, failures>>

\* It fails before the map is touched; the sender ignores the error.
InferenceFails ==
    /\ failures < MaxFailures
    /\ failures' = failures + 1
    /\ eye' = NextEye(eye)
    /\ UNCHANGED <<weights, scene, changes>>

\* What the cameras see is different in the next frame.
SceneChanges ==
    /\ eye = "left"
    /\ changes < MaxChanges
    /\ changes' = changes + 1
    /\ scene' \in Scenes \ {scene}
    /\ UNCHANGED <<weights, eye, failures>>

Next == UpdateMap \/ InferenceFails \/ SceneChanges

Spec == Init /\ [][Next]_vars /\ WF_vars(UpdateMap)

------------------------------------------------------------------------------
(* Properties. *)

\* Weights are never 0, and never leave what was ever asked for.
TypeOK ==
    /\ weights \in [Tiles -> Background .. Foreground]
    /\ scene \in Scenes
    /\ eye \in Eyes
    /\ changes \in 0 .. MaxChanges
    /\ failures \in 0 .. MaxFailures

\* Normalising neither spends nor saves: whatever the scene, the normalised
\* weights add up to that of a neutral map, but for two units a tile.
BudgetIsKept ==
    LET mean  == Mean
        total == FoldSet(LAMBDA t, acc : Normalized(weights[t], mean) + acc, 0, Tiles)
    IN  /\ total <= (Neutral + 2) * TileCount
        /\ total >= (Neutral - 2) * TileCount

\* The tiles that hold a whole macroblock, with the tile it takes its offset
\* from.
BlockTiles ==
    LET Inside(m, t) ==
          \A px \in m[1] * MbSize .. (m[1] + 1) * MbSize - 1,
             py \in m[2] * MbSize .. (m[2] + 1) * MbSize - 1 :
              px < SbsWidth /\ py < EyeHeight =>
                 (py \div TileSize) * Cols + px \div TileSize = t
    IN  {<<x[2], MbTile(x[1][1], x[1][2])>> :
            x \in {y \in Macroblocks \X Tiles : Inside(y[1], y[2])}}

\* Of two macroblocks that lie inside a tile each, the one of the more
\* important tile is never quantised more coarsely.
BlocksFollowTheirTiles ==
    LET mean == Mean
    IN  \A x, y \in BlockTiles :
            weights[x[1]] >= weights[y[1]]
               => QpOffset(weights[x[2]], mean) <= QpOffset(weights[y[2]], mean)

\* The tile a chunk takes its weight from, with those whose pixels it carries.
ChunkTiles ==
    {<<ChunkTile(c), {PixelTile(b \div 4) :
                        b \in c * MaxPayload .. c * MaxPayload + PayloadSize(c) - 1}>> :
        c \in Chunks}

\* A chunk is protected as one of the tiles is whose pixels it carries.
ChunksFollowTheirTiles ==
    LET mean == Mean
    IN  \A x \in ChunkTiles :
            Normalized(weights[x[1]], mean) \in {Normalized(weights[t], mean) : t \in x[2]}

\* The order of sending holds every tile once, a heavier tile before a
\* lighter one, and equal ones in the order of the map.
MostImportantFirst ==
    /\ {Place(t) : t \in Tiles} = 0 .. TileCount - 1
    /\ \A t, u \in Tiles :
          (Place(t) < Place(u)) <=> (\/ weights[t] > weights[u]
                                     \/ weights[t] = weights[u] /\ t < u)

\* The two views of one thing are never weighed very differently, although
\* the call for the right eye comes last and pulls the left eye's tiles back
\* towards neutral: at the end of a frame they are at most EyeGap apart.  The
\* column both eyes share is pulled by neither, and follows no one view.
EyeGap == 5

Shared(t) == \A e \in Eyes : Sees(e, t)

EyesAreAlike ==
    eye = "left" /\ failures = 0 =>
        \A t, u \in Tiles :
            /\ Sees("left", t) /\ Sees("right", u) /\ ~Shared(t) /\ ~Shared(u)
            /\ InEye("left", t) = InEye("right", u)
            => weights[t] - weights[u] \in -EyeGap .. EyeGap

\* Once the scene stands still, every tile that is foreground for each eye
\* that sees it comes to outweigh every tile that is background for each, and
\* stays so: the neutral pull of the other eye's calls does not wash the
\* difference out.
ForegroundStandsOut ==
    <>[](\A t, u \in Tiles :
            /\ \A e \in Eyes : Sees(e, t) => InEye(e, t) \in scene
            /\ \A e \in Eyes : Sees(e, u) => InEye(e, u) \notin scene
            => weights[t] > weights[u])
==============================================================================
