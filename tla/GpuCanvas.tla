------------------------------- MODULE GpuCanvas -------------------------------
(***************************************************************************)
(* Which pixels the drawing calls of ovc_exec write: rectangles with round *)
(* corners, lines, texts and blurs, under the rotation that                *)
(* GpuSetTransform2D sets and that lasts, as the opacity does, until it is *)
(* reset.  The colours, and so the blend modes, are left out; the clips    *)
(* that GpuPushClip stacks are used by no drawing call.  The glyphs of a   *)
(* font are written by the font's own modules, which are not in the        *)
(* repository; MemWrite32 and PtrWrite32At write wherever a program says.  *)
(***************************************************************************)
EXTENDS Integers, FiniteSets

CONSTANTS
  ScreenW, ScreenH, \* ctx.width, ctx.height
  Unit,             \* fixed point of the rotation, 10 000 in the code
  Rotations,        \* <<cos, sin>> in that fixed point
  Pivots,           \* pivots of a rotation
  Corners,          \* first corners of the rectangles
  Sides,            \* their widths and heights
  Radii,            \* radii of their corners
  MaxBlur,          \* pixels of the largest region that is blurred, 512 * 512
  MaxClips          \* clips stacked, 8

VARIABLES
  transform, \* GPU_TRANSFORM, with GPU_TRANSFORM_ACTIVE
  opaque,    \* is GPU_OPACITY above 0
  clips,     \* CLIP_DEPTH
  call,      \* the last drawing call
  shape,     \* its rectangle, or the ends of its line
  painted      \* the pixels it wrote

canvasVars == <<transform, opaque, clips, call, shape, painted>>

Screen == (0..ScreenW - 1) \X (0..ScreenH - 1)
Identity == [cos |-> Unit, sin |-> 0, tx |-> 0, ty |-> 0, active |-> FALSE]
Nothing == [x |-> 0, y |-> 0, w |-> 1, h |-> 1, radius |-> 0]
Rects == [x : {c[1] : c \in Corners}, y : {c[2] : c \in Corners}, w : Sides, h : Sides,
          radius : Radii]

\* a division of the code truncates; the modules' \div does not
Over(n, d) == IF n >= 0 THEN n \div d ELSE -((-n) \div d)

Least(S) == CHOOSE n \in S : \A m \in S : n <= m
Most(S) == CHOOSE n \in S : \A m \in S : n >= m
AtLeast(n, m) == IF n > m THEN n ELSE m
AtMost(n, m) == IF n < m THEN n ELSE m
Distance(n, m) == IF n > m THEN n - m ELSE m - n

\* GpuSetTransform2D: the pivot becomes a translation
Rotation(cos, sin, px, py) ==
  [cos |-> cos, sin |-> sin, active |-> TRUE,
   tx |-> Over(px * (Unit - cos) + py * sin, Unit),
   ty |-> Over(py * (Unit - cos) - px * sin, Unit)]

\* gpu_transform_point
Turned(p) ==
  IF ~transform.active THEN p
  ELSE <<Over(transform.cos * p[1], Unit) + Over(-transform.sin * p[2], Unit) + transform.tx,
         Over(transform.sin * p[1], Unit) + Over(transform.cos * p[2], Unit) + transform.ty>>

\* the point of the rectangle a pixel of the screen comes from
Source(p) ==
  IF ~transform.active THEN p
  ELSE LET dx == p[1] - transform.tx
           dy == p[2] - transform.ty
           det == transform.cos * transform.cos + transform.sin * transform.sin
       IN <<Over((transform.cos * dx + transform.sin * dy) * Unit, det),
            Over((transform.cos * dy - transform.sin * dx) * Unit, det)>>

\* how far a column, or a row, is in a corner of that radius
Corner(n, size, radius) ==
  IF n < radius THEN radius - n
  ELSE IF n >= size - radius THEN n - (size - radius) + 1 ELSE 0
InRound(r, p) ==
  LET cx == Corner(p[1] - r.x, r.w, r.radius)
      cy == Corner(p[2] - r.y, r.h, r.radius)
  IN /\ p[1] - r.x \in 0..r.w - 1 /\ p[2] - r.y \in 0..r.h - 1
     /\ cx > 0 /\ cy > 0 => cx * cx + cy * cy <= r.radius * r.radius
Round(r) == {p \in (r.x..r.x + r.w - 1) \X (r.y..r.y + r.h - 1) : InRound(r, p)}

\* GpuDrawRect, GpuDrawRoundedRectSolid, GpuDrawRoundedRectFull, GpuDrawEllipse: each
\* point goes to the pixel it is turned to
Forward(r) == {Turned(p) : p \in Round(r)} \cap Screen

\* the box of the turned corners, on the screen
Ends(r) == {Turned(p) : p \in {r.x, r.x + r.w} \X {r.y, r.y + r.h}}
Box_Unclamped(r) ==
  {q \in (-ScreenW..2 * ScreenW) \X (-ScreenH..2 * ScreenH) :
     /\ q[1] >= Least({p[1] : p \in Ends(r)}) /\ q[1] <= Most({p[1] : p \in Ends(r)})
     /\ q[2] >= Least({p[2] : p \in Ends(r)}) /\ q[2] <= Most({p[2] : p \in Ends(r)})}
Box(r) ==
  (AtLeast(Least({p[1] : p \in Ends(r)}), 0)..AtMost(Most({p[1] : p \in Ends(r)}), ScreenW - 1))
  \X (AtLeast(Least({p[2] : p \in Ends(r)}), 0)..AtMost(Most({p[2] : p \in Ends(r)}), ScreenH - 1))

\* GpuDrawRoundedRectAlpha and GpuDrawCorrugated under a rotation: each pixel of the
\* box whose source is in the rectangle; no test of the screen follows
Inverse_Forward(r) == {Turned(p) : p \in Round(r)} \cap Screen
Inverse(r) == {p \in Box(r) : InRound(r, Source(p))}

\* box_blur_region_masked_rotated: as that, unless the box is too large
RotatedBlur(r) == IF Cardinality(Box(r)) > MaxBlur THEN {} ELSE Inverse(r)

\* box_blur_region, GpuGaussianBlur, GpuProgressiveBlur: no test of the screen at all
Whole(r) == (r.x..r.x + r.w - 1) \X (r.y..r.y + r.h - 1)
PlainBlur(r) == IF r.w * r.h > MaxBlur THEN {} ELSE Whole(r)

\* GpuDrawText and draw_text_bitmap: the cells of the characters, 8 columns by 16 rows
\* in the code, with no test of the screen, turn or opacity
TextCells(r) == Whole(r)

\* gradients, noises, strokes, inner shadow and masks: the rectangle as it is, under
\* any rotation; glow and drop shadow: what is around it
Flat(r) == Round(r) \cap Screen
Around(r, spread) ==
  ((r.x - spread..r.x + r.w + spread - 1) \X (r.y - spread..r.y + r.h + spread - 1))
  \cap Screen

\* gpu_draw_frosted_rect: the rectangle is cut to the screen first, and has its round
\* corners there
Frosted(r) ==
  LET x0 == AtLeast(r.x, 0)
      y0 == AtLeast(r.y, 0)
      x1 == AtMost(r.x + r.w, ScreenW)
      y1 == AtMost(r.y + r.h, ScreenH)
      half == AtMost(x1 - x0, y1 - y0) \div 2
  IN IF x1 <= x0 \/ y1 <= y0 THEN {}
     ELSE Round([x |-> x0, y |-> y0, w |-> x1 - x0, h |-> y1 - y0,
                 radius |-> AtMost(r.radius, half)])

\* GpuDrawLine: Bresenham's steps from p to q
Bresenham_Either(s, q, dx, dy) ==
  LET sx == IF s.at[1] < q[1] THEN 1 ELSE -1
      sy == IF s.at[2] < q[2] THEN 1 ELSE -1
      right == 2 * s.err >= -dy
      down == 2 * s.err <= dx
  IN IF s.at[1] = q[1] \/ s.at[2] = q[2] THEN [s EXCEPT !.done = TRUE]
     ELSE [at |-> <<IF right THEN s.at[1] + sx ELSE s.at[1],
                    IF down THEN s.at[2] + sy ELSE s.at[2]>>,
           err |-> s.err + (IF right THEN -dy ELSE 0) + (IF down THEN dx ELSE 0),
           done |-> FALSE]
Bresenham(s, q, dx, dy) ==
  LET e2 == 2 * s.err
      sx == IF s.at[1] < q[1] THEN 1 ELSE -1
      sy == IF s.at[2] < q[2] THEN 1 ELSE -1
      right == e2 >= -dy
      down == e2 <= dx
      stops == s.at = q \/ (right /\ s.at[1] = q[1])
               \/ (down /\ s.at[2] = q[2])
  IN IF s.done \/ stops THEN [s EXCEPT !.done = TRUE]
     ELSE [at |-> <<IF right THEN s.at[1] + sx ELSE s.at[1],
                    IF down THEN s.at[2] + sy ELSE s.at[2]>>,
           err |-> s.err + (IF right THEN -dy ELSE 0) + (IF down THEN dx ELSE 0),
           done |-> FALSE]
Points(p, q) ==
  LET dx == Distance(p[1], q[1])
      dy == Distance(p[2], q[2])
      walk[n \in 0..dx + dy] ==
        IF n = 0 THEN [at |-> p, err |-> dx - dy, done |-> FALSE]
        ELSE Bresenham(walk[n - 1], q, dx, dy)
  IN {walk[n].at : n \in 0..dx + dy}
Line(p, q) == {Turned(s) : s \in Points(p, q)} \cap Screen

CanvasInit ==
  /\ transform = Identity /\ opaque = TRUE /\ clips = 0
  /\ call = "none" /\ shape = Nothing /\ painted = {}

SetTransform ==
  /\ \E r \in Rotations, p \in Pivots : transform' = Rotation(r[1], r[2], p[1], p[2])
  /\ UNCHANGED <<opaque, clips, call, shape, painted>>
SetOpacity ==
  /\ opaque' \in BOOLEAN
  /\ UNCHANGED <<transform, clips, call, shape, painted>>
PushClip ==
  /\ clips' = AtMost(clips + 1, MaxClips)
  /\ UNCHANGED <<transform, opaque, call, shape, painted>>
PopClip ==
  /\ clips' = AtLeast(clips - 1, 0)
  /\ UNCHANGED <<transform, opaque, call, shape, painted>>

\* GpuResetTransform, and reset_gpu_state before and after every application
Reset ==
  /\ transform' = Identity
  /\ \/ UNCHANGED <<opaque, clips>>
     \/ opaque' = TRUE /\ clips' = 0
  /\ UNCHANGED <<call, shape, painted>>

Draw(name, r, pixels) ==
  /\ call' = name /\ shape' = r /\ painted' = pixels
  /\ UNCHANGED <<transform, opaque, clips>>

\* a colour without alpha is drawn nowhere; the calls of Flat and Around, and the
\* blurs, know of no opacity
Seen(pixels) == IF opaque THEN pixels ELSE {}

DrawRect(r) == Draw("forward", r, Seen(Forward(r)))
DrawRounded(r) ==
  IF transform.active THEN Draw("inverse", r, Seen(Inverse(r)))
  ELSE Draw("forward", r, Seen(Forward(r)))
DrawFlat(r) == Draw("flat", r, Flat(r))
DrawAround(r) == \E spread \in 1..2 : Draw("flat", r, Around(r, spread))
DrawFrosted(r) == Draw("frosted", r, Frosted(r))
BackgroundBlur(r) ==
  IF transform.active THEN Draw("rotated blur", r, RotatedBlur(r))
  ELSE Draw("plain blur", r, PlainBlur(r))
DrawText(r) == Draw("text", r, TextCells(r))
DrawLine(r) == Draw("line", r, Seen(Line(<<r.x, r.y>>, <<r.x + r.w, r.y - r.h>>)))

\* what a call has drawn changes nothing for the next one
NextCall ==
  /\ call' = "none" /\ shape' = Nothing /\ painted' = {}
  /\ UNCHANGED <<transform, opaque, clips>>

CanvasNext ==
  \/ call # "none" /\ NextCall
  \/ call = "none" /\ (SetTransform \/ SetOpacity \/ PushClip \/ PopClip \/ Reset)
  \/ \E r \in Rects : call = "none" /\
       (DrawRect(r) \/ DrawRounded(r) \/ DrawFlat(r) \/ DrawAround(r)
        \/ DrawFrosted(r) \/ BackgroundBlur(r) \/ DrawText(r) \/ DrawLine(r))

-----------------------------------------------------------------------------
(* Properties.                                                             *)

CanvasTypeOK ==
  /\ transform \in [cos : Int, sin : Int, tx : Int, ty : Int, active : BOOLEAN] /\ opaque \in BOOLEAN /\ clips \in 0..MaxClips
  /\ shape \in Rects \cup {Nothing} /\ painted \subseteq Int \X Int

\* Two calls write outside the screen, each when its rectangle is partly outside: the
\* blur that is not turned, and a text in the built-in font.  The calls that test each
\* pixel do not by that test; those that test none, the turned rectangles and blurs and
\* the frosted panels, do not because what they walk over was cut to the screen before.
InsideScreen ==
  ~(painted \subseteq Screen) =>
    call \in {"plain blur", "text"} /\ ~(Whole(shape) \subseteq Screen)

\* A turned rectangle of which every pixel is found from its source has no holes:
\* a pixel all of whose neighbours are drawn is drawn.
Neighbours(p) ==
  {<<p[1] - 1, p[2]>>, <<p[1] + 1, p[2]>>, <<p[1], p[2] - 1>>, <<p[1], p[2] + 1>>}
NoHoles ==
  call = "inverse" => \A p \in Screen : Neighbours(p) \subseteq painted => p \in painted

\* A line that is not turned reaches from end to end: in each step of its longer
\* side it has one pixel.
LineReaches ==
  LET points == Points(<<shape.x, shape.y>>, <<shape.x + shape.w, shape.y - shape.h>>)
  IN call = "line" =>
       /\ <<shape.x + shape.w, shape.y - shape.h>> \in points
       /\ Cardinality(points) = AtLeast(shape.w, shape.h) + 1
=============================================================================
