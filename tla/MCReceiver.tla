----------------------------- MODULE MCReceiver -----------------------------
(***************************************************************************)
(* Small instances of ImtReceiver.  Payloads hold two bytes; a frame has   *)
(* at most five chunks, the last one short, so that groups of one, two,    *)
(* three and four chunks all occur.                                        *)
(***************************************************************************)
EXTENDS ImtReceiver

F(number, size, keyframe, weights) ==
  [seq |-> number, size |-> size, keyframe |-> keyframe, weights |-> weights,
   content |-> << 0, number >>]

M(number, cols, rows, weights) ==
  [type |-> "MAP", seq |-> number, cols |-> cols, rows |-> rows, weights |-> weights]

MCToken == ((0 .. 2) \X (0 .. 9)) \X (1 .. 12)

(* One transmission of each frame: a keyframe in two groups, an interframe *)
(* in one group, a second keyframe and a second interframe.                *)
MCSentOnce ==
  {F(1, 9, TRUE, << 255, 255, 200, 1, 255 >>), F(2, 4, FALSE, Uniform),
   F(3, 7, TRUE, Uniform), F(4, 3, FALSE, << 200, 1 >>)}

(* The first keyframe is also sent again, regrouped by two; keyframe 3 has *)
(* a copy of another size and an interframe is larger than the buffer, as  *)
(* after a restart of the sender with a larger picture.                    *)
MCSentAgain ==
  {F(1, 7, TRUE, Uniform), F(1, 7, TRUE, << 255, 255, 255, 255 >>),
   F(2, 3, FALSE, Uniform), F(3, 4, TRUE, Uniform), F(3, 3, TRUE, Uniform),
   F(4, 11, TRUE, Uniform), F(5, 2, FALSE, Uniform)}

(* Maps of two shapes, one too large, one truncated, one stale, besides    *)
(* two small frames.                                                       *)
MCMaps ==
  {M(1, 2, 2, << 0, 50, 200, 255 >>), M(1, 1, 2, << 9, 0 >>), M(2, 1, 1, << 0 >>),
   M(2, 3, 1, << 7, 8, 9 >>), M(3, 3, 2, << 1, 1, 1, 1, 1, 1 >>),
   M(3, 2, 2, << 1, 2, 3 >>), M(4, 0, 3, << >>), M(4, 2, 1, << 77, 0 >>),
   M(5, 4, 1, << 255, 0, 1, 128 >>)}

MCSentWithMaps == {F(1, 2, TRUE, Uniform), F(2, 3, FALSE, Uniform)}

MCRestartSizes == {3, 4}

MCDatagrams == OnceEach \cup Regrouped \cup WithMaps \cup Restarted

ASSUME SendersAssumption
=============================================================================
