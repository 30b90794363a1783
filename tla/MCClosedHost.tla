---------------------------- MODULE MCClosedHost ----------------------------
(***************************************************************************)
(* Small instances of the closed host.  Three floats, and views on them    *)
(* that coincide, overlap, are empty, read-only, too short or unmapped;    *)
(* families of regions around each thing the plan may do.                  *)
(***************************************************************************)
EXTENDS ClosedHostSession

V(rows, cols, cells, access, mapped) ==
  [rows |-> rows, cols |-> cols, cells |-> cells, access |-> access, mapped |-> mapped]

MCResources == {"a", "a2", "b", "ro", "p", "q", "short", "null", "col", "empty", "none", "tall",
                "wide"}
MCViews ==
  [r \in MCResources |->
     CASE r = "a"     -> V(1, 1, <<1>>, "read_write", TRUE)
       [] r = "a2"    -> V(1, 1, <<1>>, "read_write", TRUE)     \* the same float as a
       [] r = "b"     -> V(1, 1, <<2>>, "read_write", TRUE)
       [] r = "ro"    -> V(1, 1, <<3>>, "read_only", TRUE)
       [] r = "p"     -> V(1, 2, <<1, 2>>, "read_write", TRUE)
       [] r = "q"     -> V(1, 2, <<2, 3>>, "read_write", TRUE)  \* overlaps p
       [] r = "short" -> V(1, 2, <<3>>, "read_write", TRUE)
       [] r = "null"  -> V(1, 1, <<3>>, "unknown", FALSE)
       [] r = "col"   -> V(2, 1, <<2, 3>>, "read_write", TRUE)
       [] r = "none"  -> V(0, 1, <<>>, "read_write", FALSE)
       [] r = "empty" -> V(1, 0, <<>>, "read_write", FALSE)
       [] r = "tall"  -> V(3, 0, <<>>, "read_write", FALSE)
       [] r = "wide"  -> V(0, 3, <<>>, "read_write", FALSE)]

MCGpu == [extent |-> 3, output |-> 3, work |-> 3, pair |-> 3]

RowsOf(r) == Literal(MCViews[r].rows)
ColsOf(r) == Literal(MCViews[r].cols)
All(r)    == Read(r, RowsOf(r), ColsOf(r))
S         == Parameter("s")

\* Two publications, then a read that may be forwarded from the second.
Forwarding ==
  {<<All("ro"), All("b"), Publish(1, s1), Publish(2, s2), All(r), Publish(5, "b"), Observe("a")>> :
     s1 \in {"a", "b", "ro"}, s2 \in {"a", "a2", "b"}, r \in {"a", "a2", "b"}}
  \cup
  {<<All(r1), All(r2), Publish(1, s), All(r3), Publish(2, "p"), All(r3), Observe("q")>> :
     r1 \in {"p", "q"}, r2 \in {"p", "q"}, s \in {"p", "q", "short"}, r3 \in {"p", "q"}}

\* Publications before, inside and after the arms of a shape-if.
Branching ==
  {<<All("ro"), All("b"), Publish(1, s1), ShapeIf(S, Literal(1), 7, 10), Publish(2, s2), All("a"),
     Else(10), All(r1), Observe("b"), EndIf, All(r2), Publish(11, "b"), Observe("a")>> :
     s1 \in {"a", "b"}, s2 \in {"a", "a2", "b"}, r1 \in {"a", "b"}, r2 \in {"a", "b"}}

\* A requested shape that only the arguments and earlier values decide.
Shapes ==
  {<<Read(r, S, Literal(1)), Read("a", ValueColumns(1), ValueRows(1)), Publish(2, "null")>> :
     r \in {"a", "p", "null"}}
  \cup {<<All("empty"), Publish(1, "empty"), Read("empty", S, Literal(0))>>}

\* Two GEMMs in a row and what follows them.  Value 4 is the producer's.
Tails == {<<Publish(5, "b"), Observe("b")>>, <<Publish(4, "b")>>,
          <<Read("a", ValueRows(4), ValueColumns(4)), Publish(6, "b")>>,
          <<ShapeIf(ValueRows(4), Literal(0), 8, 10), Publish(5, "b"), Else(10), Publish(1, "b"), EndIf>>,
          <<Gemm(5, 3, "strict_f32"), Publish(6, "b")>>}
Chains ==
  {<<All("a"), All("ro"), All("b"), Gemm(1, 2, f), Gemm(4, d, g)>> \o tail :
     f \in Profile, g \in Profile, d \in {2, 3, 4}, tail \in Tails}
\* Contractions that disagree, empty reductions and products too large, at
\* the first or at the second frontier of a pair.
Edges ==
  {<<Read(x, Literal(1), S), All(y), All(z), Gemm(1, 2, "strict_f32"),
     Gemm(4, 3, "strict_f32"), Publish(5, "b")>> :
     x \in {"a", "p", "empty"}, y \in {"a", "p", "empty", "none"},
     z \in {"b", "q", "none", "col"}}
  \cup {<<All("tall"), All("wide"), Gemm(1, 2, "strict_f32"), Gemm(3, 1, "strict_f32"),
          Observe("ro")>>}

MCPrograms ==
  {p \in Forwarding \cup Branching \cup Shapes \cup Chains \cup Edges : WellFormed(p)}
=============================================================================
