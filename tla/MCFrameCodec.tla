---------------------------- MODULE MCFrameCodec ----------------------------
(* The headers at the limits of each field, with bodies of flags, of one    *)
(* byte and of the longest short length; frames with the extended length    *)
(* field; UI frames.                                                        *)
EXTENDS FrameCheck

Body(n, b) == [k \in 1 .. n |-> b]

Mix(types, dlcis, bodies) ==
  [ea : {TRUE}, cr : BOOLEAN, dlci : dlcis, type : types, pf : BOOLEAN,
   body : bodies]

LongInfos ==
  [ea : {TRUE}, cr : {TRUE}, dlci : {1}, type : {UIH}, pf : {FALSE},
   body : {Body(128, 5)}]

UIInfos ==
  [ea : {TRUE}, cr : {TRUE}, dlci : {1}, type : {UI}, pf : {FALSE},
   body : {Body(0, 0), Body(2, 5)}]

(* The last two have more than six bits. *)
Dlcis == {0, 1, 63, 64, 255}

MCInfos ==
  Mix({SABM, UA, DM, DISC}, Dlcis, {<<>>})
    \cup Mix({UIH}, Dlcis, {Body(0, 0), Body(1, 249), Body(3, 249), <<3, 5>>})
    \cup [ea : {TRUE}, cr : {TRUE}, dlci : {62}, type : {UIH}, pf : {FALSE},
          body : {Body(127, 249)}]
    \cup LongInfos
    \cup UIInfos

MCDamages == {0, 1, 3, 5, 15, 67, 99, 127, 239, 249}
=============================================================================
