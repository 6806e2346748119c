------------------------- MODULE MCRequestLifecycle -------------------------
(***************************************************************************)
(* RequestLifecycle on small instances: completions that share threads     *)
(* with ones whose clients leave, images of every kind beside them, and    *)
(* one request at a time with a limited rate, with and without drafts.     *)
(***************************************************************************)
EXTENDS RequestLifecycle, TLC

Stays(stream)  == Completion(stream, FALSE, 1, 0, <<>>)
Leaves(stream) == Completion(stream, TRUE, 1, 0, <<>>)
At(asked)      == Completion(TRUE, FALSE, 4, 0, asked)
Drafts(asked)  == Completion(FALSE, FALSE, 6, 1, asked)

SmallMixes ==
    {("r1" :> Leaves(TRUE)) @@ ("r2" :> Completion(TRUE, FALSE, 0, 0, <<>>)) @@ ("r3" :> Leaves(FALSE)),
     ("r1" :> Pictures(TRUE, TRUE, 2, TRUE, FALSE, 1)) @@ ("r2" :> Stays(TRUE)),
     ("r1" :> Pictures(FALSE, TRUE, 3, FALSE, FALSE, 1)) @@ ("r2" :> Stays(TRUE))}
    \cup {("r1" :> Pictures(TRUE, TRUE, 2, size = 4, TRUE, size)) @@ ("r2" :> Pictures(TRUE, FALSE, 1, size = 4, FALSE, 1)) :
             size \in {3, 4}}
    \cup {("r1" :> At(asked)) : asked \in {<<>>, <<0>>, <<1>>, <<3>>}} \cup {("r1" :> Drafts(asked)) : asked \in {<<0>>, <<1>>}}
    \cup {("r1" :> Completion(TRUE, TRUE, 3, 1, <<>>)) @@ ("r2" :> Completion(FALSE, FALSE, 0, 0, <<>>))}

StreamMixes == {("r1" :> Completion(TRUE, TRUE, 2, 0, <<>>)) @@ ("r2" :> Completion(FALSE, FALSE, 2, 0, <<>>))}
=============================================================================
