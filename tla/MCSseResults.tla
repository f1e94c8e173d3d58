----------------------------- MODULE MCSseResults -----------------------------
(* Three connections, one that posts, four results for a store of two: "wide"   *)
(* has the longest encoding and fills the store alone, "even" ends with a full   *)
(* chunk and leaves room for "tiny", "huge" does not fit at all.                *)
EXTENDS SseResults, TLC

CONSTANT p1

Lengths == "tiny" :> 1 @@ "even" :> 4 @@ "wide" :> 3 @@ "huge" :> 1
Sizes == "tiny" :> 1 @@ "even" :> 4 @@ "wide" :> 5 @@ "huge" :> 9
=============================================================================
