------------------------------ MODULE Geometry ------------------------------
(***************************************************************************)
(* Sizes and rectangles of the device's screen: Device.java, ScreenInfo.   *)
(* A configuration holds the display in its natural orientation, the crop  *)
(* (or NoCrop) and the maximal size of the video (0: none).                *)
(***************************************************************************)
EXTENDS Integers

Size == [w : Int, h : Int]
Rect == [left : Int, top : Int, right : Int, bottom : Int]
ScreenInfo == [rect : Rect, size : Size, rotated : BOOLEAN]

Width(r) == r.right - r.left
Height(r) == r.bottom - r.top
RectOf(left, top, right, bottom) ==
  [left |-> left, top |-> top, right |-> right, bottom |-> bottom]

NoCrop == RectOf(0, 0, 0, 0)

IsRotated(rotation) == rotation % 2 # 0

(* Device.flipRect(), Size.rotate() *)
FlipRect(r) == RectOf(r.top, r.left, r.bottom, r.right)
RotateSize(s) == [w |-> s.h, h |-> s.w]

(* ScreenInfo.withRotation() *)
WithRotation_SizeOnly(info, rotation) ==
  IF info.rotated = IsRotated(rotation) THEN info
  ELSE [rect |-> info.rect, size |-> RotateSize(info.size),
        rotated |-> IsRotated(rotation)]
WithRotation(info, rotation) ==
  IF info.rotated = IsRotated(rotation) THEN info
  ELSE [rect |-> FlipRect(info.rect), size |-> RotateSize(info.size),
        rotated |-> IsRotated(rotation)]

(* android.graphics.Rect.intersect(), and new Rect() if they do not. *)
Larger(a, b) == IF a < b THEN b ELSE a
Smaller(a, b) == IF a < b THEN a ELSE b
Intersection(a, b) ==
  IF a.left < b.right /\ b.left < a.right /\ a.top < b.bottom /\ b.top < a.bottom
  THEN RectOf(Larger(a.left, b.left), Larger(a.top, b.top),
              Smaller(a.right, b.right), Smaller(a.bottom, b.bottom))
  ELSE RectOf(0, 0, 0, 0)

(* & ~15 *)
Masked(x) == x - (x % 16)

(* computeVideoSize().  The greater side is cut to max_size, the other one   *)
(* scaled as much, then masked.                                              *)
MinorSide(minor, major, max) == Masked((minor * max) \div major + 4)

VideoSize(width, height, max) ==
  LET w == Masked(width)
      h == Masked(height)
  IN IF max = 0 \/ (w <= max /\ h <= max) THEN [w |-> w, h |-> h]
     ELSE IF h > w THEN [w |-> MinorSide(w, h, max), h |-> max]
     ELSE [w |-> max, h |-> MinorSide(h, w, max)]

(* computeScreenInfo(), with the display turned by rotation. *)
CropFlipped(crop, rotation) == IF IsRotated(rotation) THEN FlipRect(crop) ELSE crop

ContentRect(config, rotation) ==
  LET s == IF IsRotated(rotation) THEN RotateSize(config.display) ELSE config.display
      full == RectOf(0, 0, s.w, s.h)
  IN IF config.crop = NoCrop THEN full
     ELSE Intersection(full, CropFlipped(config.crop, rotation))

InfoOf(config, rotation) ==
  LET r == ContentRect(config, rotation)
  IN [rect |-> r, size |-> VideoSize(Width(r), Height(r), config.max_size),
      rotated |-> IsRotated(rotation)]

(* newGetPhysicalPoint(): where on the display the pixel x, y of the video is. *)
Scaled(from, x, content, video) == from + (x * content) \div video
PhysicalX(info, x) == Scaled(info.rect.left, x, Width(info.rect), info.size.w)
PhysicalY(info, y) == Scaled(info.rect.top, y, Height(info.rect), info.size.h)
=============================================================================
