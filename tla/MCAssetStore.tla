---------------------------- MODULE MCAssetStore ----------------------------
(***************************************************************************)
(* Three files for AssetStore: two with the same content under different   *)
(* extensions, and one with a blank in it that is not a picture.           *)
(***************************************************************************)
EXTENDS AssetStore, Fnv1a

Picture == <<65>>
Text == <<66, 32, 67>>

MCSources ==
    {[content |-> Picture, extension |-> ".png"],
     [content |-> Picture, extension |-> ".jpg"],
     [content |-> Text, extension |-> ".png"]}

MCUnreadable == {Text}

\* The hash tells the two contents apart.
ASSUME ContentsTellApart == NoCollision
=============================================================================
