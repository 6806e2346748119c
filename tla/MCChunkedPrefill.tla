-------------------------- MODULE MCChunkedPrefill --------------------------
(***************************************************************************)
(* ChunkedPrefill on small instances: two or three requests that share     *)
(* beginnings and media on a model without markers, on the one that slices *)
(* and on one that hears, and every other family with two.                 *)
(***************************************************************************)
EXTENDS ChunkedPrefill, TLC

text(tokens) == [media |-> 0, text |-> tokens]
medium(m)    == [media |-> m, text |-> <<>>]

SmallGrid      == (1 :> <<2, 2>>) @@ (2 :> <<1, 3>>) @@ (3 :> <<2, 2>>) @@ (4 :> <<2, 1>>)
SmallPositions == (1 :> 2) @@ (2 :> 3) @@ (3 :> 1) @@ (4 :> 2)

Picture1 == <<text(<<1>>), medium(1), text(<<2>>)>>
Picture2 == <<text(<<1>>), medium(1), text(<<3, 2, 2>>)>>
Pictures == <<text(<<1>>), medium(1), medium(2), text(<<2>>)>>
Others   == <<medium(3), text(<<3>>), medium(1), text(<<2>>)>>
Sounds   == <<text(<<1>>), medium(4), text(<<2>>)>>
Plain1   == <<text(<<1, 2>>)>>
Plain2   == <<text(<<1, 2, 2, 3>>)>>
Sliced   == <<text(<<1>>), medium(3), text(<<2>>)>>
TooBig   == <<text([k \in 1 .. 25 |-> 1 + (k % 7)])>>

Use(f, requests, messages) == [family |-> f, requests |-> requests, messages |-> messages]

PlainSetup == Use("vision", {"r1", "r2"}, {Plain1, Plain2})

SmallSetups ==
    {Use("vision", {"r1", "r2", "r3"}, {Picture1, Picture2, Plain2}),
     Use("vision", {"r1", "r2"}, {Pictures, Others}),
     Use("vision", {"r1", "r2"}, {Plain1, Plain2, TooBig, Sounds}),
     Use("minicpmv", {"r1", "r2"}, {Sliced, Picture1}),
     Use("minicpmv2", {"r1"}, {Sliced}),
     Use("qwen2a", {"r1", "r2", "r3"}, {Sounds, Plain1})}
    \cup {Use(f, {"r1", "r2"}, {IF Hears(f) THEN Sounds ELSE Others}) : f \in Families}

PlainSetups == {PlainSetup}
=============================================================================
