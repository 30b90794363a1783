---------------------------- MODULE PackedKernels ----------------------------
(***************************************************************************)
(* The packed GEMM kernels (cpu_packed_avx2.cpp, cpu_packed_avx512.cpp and  *)
(* cpu_packed_b_format.h): validation of the buffers, packing of the right  *)
(* operand, and the loop nest over blocks, panels and tiles.                *)
(*                                                                         *)
(* Memory is one array of float cells.  A cell holds the sum it was        *)
(* computed as: a sequence of terms, each the concatenation of two cells.  *)
(* At first a cell holds its own address.  Sums keep their order, so two   *)
(* kernels that agree here add in the same order.                          *)
(* Tile sizes are constants; sizes and addresses are counted in floats.    *)
(***************************************************************************)
EXTENDS Integers, Sequences, FiniteSets

CONSTANTS MR, NR, MC, NC, KC,   \* kCpuPackedGemm{Mr,Nr,Mc,Nc,Kc}V1
          Align,                \* kCpuPackedGemmWorkspaceAlignmentV1
          MaxAddress,           \* end of the address space
          Shapes                \* problems: records with m, n and k

KernelConstantsAssumption ==
  /\ {MR, NR, MC, NC, KC, Align} \subseteq Nat \ {0}
  /\ MC % MR = 0 /\ NC % NR = 0 /\ NR % Align = 0

Isa == {"avx2", "avx512"}
Mode == {"transient", "prepacked"}
Buffer == {"lhs", "rhs", "out", "workspace", "image"}
Pad == << <<-1>> >>

Least(a, b) == IF a < b THEN a ELSE b
RoundUp(x, multiple) == ((x + multiple - 1) \div multiple) * multiple

-----------------------------------------------------------------------------
(* Sizes: make_execution_requirements and the prepacked image.             *)

PackedACells(q) == RoundUp(Least(q.m, MC), MR) * Least(q.k, KC)
PackedBCells(q) == RoundUp(Least(q.n, NC), NR) * Least(q.k, KC)
PackedBOffset(q) == RoundUp(PackedACells(q), Align)
WorkspaceCells(q, mode) ==
  RoundUp(IF mode = "prepacked" THEN PackedACells(q)
          ELSE PackedBOffset(q) + PackedBCells(q), Align)
ImageCells(q) == RoundUp(q.n, NR) * q.k

Cells(q, mode, b) ==
  CASE b = "lhs" -> q.m * q.k
    [] b = "rhs" -> q.k * q.n
    [] b = "out" -> q.m * q.n
    [] b = "workspace" -> WorkspaceCells(q, mode)
    [] b = "image" -> IF mode = "prepacked" THEN ImageCells(q) ELSE 0

-----------------------------------------------------------------------------
(* Validation                                                              *)

Span(base, b, q, mode) == [begin |-> base[b], end |-> base[b] + Cells(q, mode, b)]
SpanFits(s) == s.end <= MaxAddress
Overlaps(s, t) == s.begin < t.end /\ t.begin < s.end
Touch(base, q, mode, b, c) == Overlaps(Span(base, b, q, mode), Span(base, c, q, mode))

\* cpu_make_packed_b_view_v1; the provenance is a digest of the other fields.
View(base, q) == [source |-> base["rhs"], packed |-> base["image"],
                  elements |-> ImageCells(q), k |-> q.k, n |-> q.n]

\* cpu_validate_packed_b_view_metadata_v1.
ViewMatches(view, q) ==
  /\ view.k = q.k /\ view.n = q.n
  /\ view.elements = ImageCells(q)
  /\ view.packed % Align = 0

TensorContract(base, q, mode) ==
  IF \E b \in {"lhs", "rhs", "out"} : ~SpanFits(Span(base, b, q, mode))
  THEN "arithmetic_overflow"
  ELSE IF Touch(base, q, mode, "out", "lhs") \/ Touch(base, q, mode, "out", "rhs")
  THEN "alias_violation" ELSE "success"
Forbidden(md) == {"lhs", "rhs", "out"} \cup (IF md = "prepacked" THEN {"image"} ELSE {})

WorkspacePlaced(at, s, md) ==
  IF ~SpanFits(Span(at, "workspace", s, md)) THEN "arithmetic_overflow"
  ELSE IF \E b \in Forbidden(md) : Touch(at, s, md, "workspace", b)
  THEN "alias_violation" ELSE "success"

\* validate_workspace of the two kernels: they report a workspace that is both
\* small and skewed differently.
Avx2Workspace(at, size, s, md) ==
  IF size < WorkspaceCells(s, md) THEN "workspace_insufficient"
  ELSE IF at["workspace"] % Align # 0 THEN "workspace_misaligned"
  ELSE WorkspacePlaced(at, s, md)
Avx512Workspace(at, size, s, md) ==
  IF at["workspace"] % Align # 0 THEN "workspace_misaligned"
  ELSE IF size < WorkspaceCells(s, md) THEN "workspace_insufficient"
  ELSE WorkspacePlaced(at, s, md)

\* validate_prepacked_view and what the callers check about the image.
ImageContract(base, view, q) ==
  CASE ~ViewMatches(view, q) -> "invalid_prepacked_b"
    [] ViewMatches(view, q) /\ ~SpanFits(Span(base, "image", q, "prepacked")) ->
         "arithmetic_overflow"
    [] OTHER ->
         IF Touch(base, q, "prepacked", "rhs", "image") THEN "invalid_prepacked_b"
         ELSE IF TensorContract(base, q, "prepacked") # "success"
              THEN TensorContract(base, q, "prepacked")
         ELSE IF Touch(base, q, "prepacked", "lhs", "image")
                 \/ Touch(base, q, "prepacked", "out", "image")
              THEN "alias_violation" ELSE "success"

\* cpu_validate_prepare_packed_b_*: before anything is packed.
PrepareContract(base, bytes, q) ==
  CASE bytes < RoundUp(ImageCells(q), Align) -> "workspace_insufficient"
    [] bytes >= RoundUp(ImageCells(q), Align) /\ base["image"] % Align # 0 ->
         "workspace_misaligned"
    [] OTHER -> IF ~SpanFits(Span(base, "rhs", q, "prepacked"))
                   \/ ~SpanFits(Span(base, "image", q, "prepacked"))
                THEN "arithmetic_overflow"
                ELSE IF Touch(base, q, "prepacked", "rhs", "image")
                THEN "alias_violation" ELSE "success"

\* What both kernels check before the workspace.
OperandContract(at, descriptor, s, md) ==
  IF md = "prepacked" THEN ImageContract(at, descriptor, s) ELSE TensorContract(at, s, md)

-----------------------------------------------------------------------------
(* Packing and computing                                                   *)

\* Cell d of a block of B packed for columns [column, column + columns) and
\* depth rows from p: panels of NR columns, row by row, padded with zeros.
PackedBCell(mem, base, q, column, p, depth, columns, d) ==
  LET panel == d \div (depth * NR)
      within == d % (depth * NR)
      lane == panel * NR + (within % NR)
  IN IF lane < columns
     THEN mem[base["rhs"] + (p + (within \div NR)) * q.n + column + lane] ELSE Pad

\* The memory after cpu_pack_b_block_v1 wrote a block at address to.
PackB(mem, base, q, column, p, depth, columns, to) ==
  [a \in DOMAIN mem |->
     IF a >= to /\ a < to + RoundUp(columns, NR) * depth
     THEN PackedBCell(mem, base, q, column, p, depth, columns, a - to) ELSE mem[a]]

PackedACell(mem, base, q, row, p, rows, depth, d) ==
  LET panel == d \div (depth * MR)
      within == d % (depth * MR)
      lane == panel * MR + (within % MR)
  IN IF lane < rows
     THEN mem[base["lhs"] + (row + lane) * q.k + p + (within \div MR)] ELSE Pad

PackA(mem, base, q, row, p, rows, depth) ==
  LET to == base["workspace"]
  IN [a \in DOMAIN mem |->
        IF a >= to /\ a < to + RoundUp(rows, MR) * depth
        THEN PackedACell(mem, base, q, row, p, rows, depth, a - to) ELSE mem[a]]

\* A micro kernel: element (r, c) of a tile, from panels at a and b.
TileElement(mem, a, b, depth, r, c, initial) ==
  LET Term(t) == mem[a + t * MR + r][1] \o mem[b + t * NR + c][1]
  IN initial \o [t \in 1 .. depth |-> Term(t - 1)]

\* Columns of a tile: AVX-512 takes two panels at once on full rows.
\* Mutant: the edge columns after a double panel are skipped.
TileWidth_AllDouble(isa, tileRows, column, columns) ==
  IF isa = "avx512" /\ tileRows = MR THEN 2 * NR ELSE NR
TileWidth(isa, tileRows, column, columns) ==
  IF isa = "avx512" /\ tileRows = MR /\ column + 2 * NR <= columns THEN 2 * NR ELSE NR

\* The tile that covers column c of a row of tiles: full double tiles first.
TileColumn(isa, tileRows, columns, c) ==
  LET double == IF TileWidth(isa, tileRows, 0, columns) = 2 * NR
                THEN (columns \div (2 * NR)) * 2 * NR ELSE 0
  IN IF c < double THEN [panel |-> c \div NR, lane |-> c % NR, stored |-> TRUE]
     ELSE [panel |-> c \div NR, lane |-> c % NR,
           stored |-> TileWidth(isa, tileRows, double, columns) = NR]
StoredRows(rows) == 0 .. rows - 1

\* compute_block: one block of A packed, then every tile of the block.  A tile
\* at an edge is computed in a local buffer and only its elements are stored.
ComputeBlock(mem, base, q, isa, row, column, p, rows, columns, depth, packedB) ==
  LET packed == PackA(mem, base, q, row, p, rows, depth)
      Element(r, c) ==
        LET tileRows == Least(MR, rows - (r \div MR) * MR)
            tile == TileColumn(isa, tileRows, columns, c)
            at == base["out"] + (row + r) * q.n + column + c
        IN IF tile.stored
           THEN TileElement(packed, base["workspace"] + (r \div MR) * depth * MR,
                            packedB + tile.panel * depth * NR, depth, r % MR, tile.lane,
                            IF p # 0 THEN packed[at] ELSE << >>)
           ELSE packed[at]
      Row(a) == ((a - base["out"]) \div q.n) - row
      Column(a) == ((a - base["out"]) % q.n) - column
  IN [a \in DOMAIN mem |->
        IF Row(a) \in StoredRows(rows) /\ Column(a) \in 0 .. columns - 1
        THEN Element(Row(a), Column(a)) ELSE packed[a]]

-----------------------------------------------------------------------------
VARIABLES
  q, mode, isa,     \* the problem, how B is supplied, and the kernel
  packer,           \* the kernel that packed the image
  base,             \* where the buffers are
  bytes,            \* size the client claims for its workspace
  view,             \* descriptor of the packed image
  mem,              \* memory
  column, p, row,   \* loop counters
  offset,           \* packed_offset of the prepacked loop
  stage, status

vars == <<q, mode, isa, packer, base, bytes, view, mem, column, p, row, offset, stage, status>>
call == <<q, mode, isa, packer, base, bytes>>

\* Buffers one after the other, each aligned.
Plain(s, md) ==
  LET Size(b) == RoundUp(Cells(s, md, b), Align)
      lhs == 0
      rhs == lhs + Size("lhs")
      out == rhs + Size("rhs")
      ws == out + Size("out")
      img == ws + Size("workspace")
  IN [b \in Buffer |-> CASE b = "lhs" -> lhs [] b = "rhs" -> rhs [] b = "out" -> out
                         [] b = "workspace" -> ws [] b = "image" -> img]

\* Layouts that move one buffer onto the end of another.
Layouts(s, md) ==
  LET plain == Plain(s, md)
      Onto(b, c) == [plain EXCEPT ![b] =
                       ((plain[c] + Cells(s, md, c) - 1) \div Align) * Align]
  IN {plain, [plain EXCEPT !["workspace"] = @ + 1]}
     \cup {Onto(b, c) : b \in Buffer \ {"rhs"}, c \in Buffer \ {"image"}}

Init ==
  /\ q \in Shapes /\ mode \in Mode /\ isa \in Isa /\ packer \in Isa
  /\ mode = "transient" => packer = isa
  /\ base \in Layouts(q, mode)
  /\ bytes \in {WorkspaceCells(q, mode), WorkspaceCells(q, mode) - 1}
  /\ view = [source |-> 0, packed |-> 0, elements |-> 0, k |-> 0, n |-> 0]
  /\ mem = [a \in 0 .. MaxAddress - 1 |-> << <<a>> >>]
  /\ column = 0 /\ p = 0 /\ row = 0 /\ offset = 0
  /\ stage = (IF mode = "prepacked" THEN "prepare" ELSE "validate")
  /\ status = "none"

Columns == Least(NC, q.n - column)
Depth == Least(KC, q.k - p)
Rows == Least(MC, q.m - row)

\* cpu_prepare_packed_b_*: the whole image, block after block.
PrepareRefused ==
  /\ stage = "prepare"
  /\ PrepareContract(base, RoundUp(ImageCells(q), Align), q) # "success"
  /\ status' = PrepareContract(base, RoundUp(ImageCells(q), Align), q)
  /\ stage' = "done"
  /\ UNCHANGED <<call, view, mem, column, p, row, offset>>
PrepareBlock(kernel) ==
  /\ packer = kernel
  /\ stage = "prepare"
  /\ PrepareContract(base, RoundUp(ImageCells(q), Align), q) = "success"
  /\ mem' = PackB(mem, base, q, column, p, Depth, Columns, base["image"] + offset)
  /\ offset' = offset + RoundUp(Columns, NR) * Depth
  /\ IF p + KC < q.k THEN p' = p + KC /\ UNCHANGED <<column, stage, view>>
     ELSE /\ p' = 0
          /\ IF column + NC < q.n THEN column' = column + NC /\ UNCHANGED <<stage, view>>
             ELSE column' = 0 /\ stage' = "described" /\ view' = View(base, q)
  /\ UNCHANGED <<call, row, status>>
Avx2Prepare == PrepareBlock("avx2")
Avx512Prepare == PrepareBlock("avx512")

\* The client keeps the image, and may use it with another problem.
UseImage(other) ==
  /\ stage = "described"
  /\ q' = other
  /\ bytes' = WorkspaceCells(other, mode) - (WorkspaceCells(q, mode) - bytes)
  /\ stage' = "validate" /\ offset' = 0
  /\ UNCHANGED <<mode, isa, packer, base, view, mem, column, p, row, status>>

\* The end of validation: nothing is written before it succeeds.
Answer(verdict) ==
  /\ stage = "validate"
  /\ status' = verdict
  /\ stage' = (IF verdict # "success" THEN "done"
               ELSE IF mode = "prepacked" THEN "compute" ELSE "pack")
  /\ UNCHANGED <<call, view, mem, column, p, row, offset>>
Avx2Validate ==
  LET first == OperandContract(base, view, q, mode)
  IN isa = "avx2" /\ Answer(IF first # "success" THEN first
                            ELSE Avx2Workspace(base, bytes, q, mode))
Avx512Validate ==
  LET first == OperandContract(base, view, q, mode)
  IN isa = "avx512" /\ Answer(IF first # "success" THEN first
                              ELSE Avx512Workspace(base, bytes, q, mode))

PackBlock ==
  /\ stage = "pack"
  /\ mem' = PackB(mem, base, q, column, p, Depth, Columns,
                  base["workspace"] + PackedBOffset(q))
  /\ stage' = "compute"
  /\ UNCHANGED <<call, view, column, p, row, offset, status>>

\* Where the current block of B starts.
PackedBlock == IF mode = "prepacked" THEN base["image"] + offset
               ELSE base["workspace"] + PackedBOffset(q)

\* The loops over rows, depth and columns, innermost first.
Advance ==
  /\ stage = "compute"
  /\ IF row + MC < q.m
     THEN row' = row + MC /\ UNCHANGED <<column, p, offset, stage>>
     ELSE /\ row' = 0
          /\ offset' = offset + (IF mode = "prepacked" THEN RoundUp(Columns, NR) * Depth ELSE 0)
          /\ IF p + KC < q.k THEN p' = p + KC /\ UNCHANGED column
             ELSE p' = 0 /\ column' = column + NC
          /\ stage' = (IF p + KC >= q.k /\ column + NC >= q.n THEN "done"
                       ELSE IF mode = "prepacked" THEN "compute" ELSE "pack")
  /\ UNCHANGED <<call, view, status>>

Block == ComputeBlock(mem, base, q, isa, row, column, p, Rows, Columns, Depth, PackedBlock)

Avx2Compute == isa = "avx2" /\ Advance /\ mem' = Block
Avx512Compute == isa = "avx512" /\ mode = "transient" /\ Advance /\ mem' = Block
Avx512ComputePrepacked == isa = "avx512" /\ mode = "prepacked" /\ Advance /\ mem' = Block

Next ==
  \/ PrepareRefused \/ Avx2Prepare \/ Avx512Prepare \/ (\E other \in Shapes : UseImage(other))
  \/ Avx2Validate \/ Avx512Validate \/ PackBlock
  \/ Avx2Compute \/ Avx512Compute \/ Avx512ComputePrepacked

Spec == Init /\ [][Next]_vars

-----------------------------------------------------------------------------
Finished == stage = "done" /\ status = "success"
Inside(a, b) == a >= base[b] /\ a < base[b] + Cells(q, mode, b)

\* reference_gemm: element (i, j) is the sum over increasing p.
Reference(i, j) ==
  [t \in 1 .. q.k |-> <<base["lhs"] + i * q.k + t - 1, base["rhs"] + (t - 1) * q.n + j>>]

\* An accepted call computes every element of the product, each from all its
\* terms, exactly once and in the order of the reference loop, whatever the
\* shape, the kernel, the kernel that packed B, and the place of the buffers.
ComputesProduct ==
  Finished => \A i \in 0 .. q.m - 1, j \in 0 .. q.n - 1 :
                mem[base["out"] + i * q.n + j] = Reference(i, j)

\* Nothing but the output, the workspace and, while it is prepared, the image
\* is ever written: a tile at an edge stores no padding, and a refused call
\* stores nothing at all.
WritesStayInside ==
  \A a \in DOMAIN mem :
    mem[a] # << <<a>> >> =>
      \/ mode = "prepacked" /\ a >= base["image"] /\ a < base["image"] + view.elements
      \/ stage = "prepare"
      \/ status = "success" /\ (Inside(a, "out") \/ Inside(a, "workspace"))

\* Whoever loads a panel of B loads it from an aligned address
\* (_mm256_load_ps and _mm512_load_ps fault otherwise).
PanelsAligned == stage = "compute" => PackedBlock % Align = 0
=============================================================================
