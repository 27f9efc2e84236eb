---------------------------- MODULE MCRecvTracks ----------------------------
(* RecvTracks for every offer of at most two sections with at most two     *)
(* codecs each.                                                            *)
EXTENDS RecvTracks, SequencesExt

MCPayloads == {-1, 0}

MCSections == [type : Types, direction : Directions, rtp : BoundedSeq(Rtp, 2)]

MCOffers == BoundedSeq(MCSections, 2)
=============================================================================
