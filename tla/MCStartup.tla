------------------------------- MODULE MCStartup -------------------------------
(* Torrent files with every choice of present and missing fields, up to two  *)
(* tiers of up to two URLs and up to two files.                              *)
EXTENDS Startup

CONSTANTS u1, u2, u3, name

MCUrls == {u1, u2, u3}

Files == [length : {None, 1}, path : {None, 0, 2}]

Infos == [piece_length : {None, 4}, name : {None, name},
          files : {None} \cup BoundedSeq(Files, 2), length : {None, 1}]

Doc(form, tiers, announce, info) ==
    [form |-> form, tiers |-> tiers, announce |-> announce, info |-> info]

MCDocs ==
    {Doc(f, None, None, None) : f \in {"unreadable", "bad", "other", "dict"}}
        \cup {Doc("dict", t, a, i) :
                 t \in {None} \cup BoundedSeq({<<>>, <<u1>>, <<u2, u1>>}, 2),
                 a \in {None, u3}, i \in Infos}

MCOptions == BoundedSeq({"t", "m"}, 2)
==============================================================================
