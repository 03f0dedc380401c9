---------------------------- MODULE PpuBackground ----------------------------
(* How the picture processor walks a background map for one line (ppu.c,     *)
(* PPU_DrawBG_4bpp_8x8): a pointer into the map steps from tile to tile and  *)
(* jumps at the border of a 256-pixel screen, the first and the last tile    *)
(* are cut by a mask, and tiles may be flipped.                              *)
(*                                                                           *)
(* A pixel is recorded by where it comes from: the cell of the map, and the  *)
(* row and column of its tile. The sizes are scaled down.                    *)
EXTENDS Integers

CONSTANTS Tile,          \* pixels of a tile's side (8)
          Cols,          \* tiles of a screen's side (32)
          HFlip, VFlip   \* the cells whose tiles are flipped

Width  == Tile * Cols    \* pixels of a line, and of a screen's side (256)
Screen == Cols * Cols    \* cells of a screen (1024)
Cells  == 0 .. 4 * Screen - 1

VARIABLES
  drawing,          \* a line is being drawn
  scr,              \* BGScr bits 0-1: a second screen to the right, below
  x0, y,            \* the position the line starts at (history), and ypos
  i, xpos,          \* the loop counter, xpos
  tilemap, dst,     \* the pointers, from the map's base and the line's start
  drawn             \* the pixels drawn so far

vars == <<drawing, scr, x0, y, i, xpos, tilemap, dst, drawn>>

Positions == 0 .. 2 * Width - 1

TypeOK ==
  /\ drawing \in BOOLEAN
  /\ scr \in [right : BOOLEAN, below : BOOLEAN]
  /\ x0 \in Positions /\ y \in Positions
  /\ i \in 0 .. Cols + 1 /\ xpos \in 0 .. 3 * Width + Tile
  /\ dst \in -Tile .. Width + Tile
  /\ drawing => tilemap \in Cells

Init ==
  /\ drawing = FALSE
  /\ scr = [right |-> FALSE, below |-> FALSE]
  /\ x0 = 0 /\ y = 0 /\ i = 0 /\ xpos = 0 /\ tilemap = 0 /\ dst = 0
  /\ drawn = [p \in {} |-> 0]

\* The second screen of a position.
Beyond(pos) == (pos \div Width) % 2 = 1
\* The tile of a position, within its screen.
TileOf(pos) == (pos % Width) \div Tile

\* The first tile: y is the line plus BGYPos, x is BGXPos.
Start == \E s \in [right : BOOLEAN, below : BOOLEAN], x \in Positions,
            yy \in Positions :
  /\ ~drawing
  /\ drawing' = TRUE
  /\ scr' = s /\ x0' = x /\ xpos' = x /\ y' = yy /\ i' = 0
  /\ tilemap' = TileOf(yy) * Cols
                + (IF ~(Beyond(yy) /\ s.below) THEN 0
                   ELSE IF s.right THEN 2 * Screen ELSE Screen)
                + TileOf(x)
                + (IF Beyond(x) /\ s.right THEN Screen ELSE 0)
  /\ dst' = -(x % Tile)
  /\ drawn' = [p \in {} |-> 0]

TilesOfLine == IF x0 % Tile = 0 THEN Cols ELSE Cols + 1

(* Variant: only the first tile is cut. *)
Shown_Left ==
  LET xoff == x0 % Tile
  IN {c \in 0 .. Tile - 1 : i = 0 => c >= xoff}

\* The pixels of a tile its mask lets through.
Shown ==
  LET xoff == x0 % Tile
  IN {c \in 0 .. Tile - 1 : /\ i = 0 => c >= xoff
                            /\ i = Cols => c < xoff}

\* Where the pixel c of the tile comes from.
Source(c) ==
  <<tilemap,
    IF tilemap \in VFlip THEN Tile - 1 - (y % Tile) ELSE y % Tile,
    IF tilemap \in HFlip THEN Tile - 1 - c ELSE c>>

(* Variant: back on the first screen, the line goes on one row below. *)
Jump_Below(x) ==
  IF TileOf(x) # 0 THEN 0
  ELSE IF ~scr.right THEN -Cols
  ELSE IF Beyond(x) THEN Screen - Cols
  ELSE -Screen

\* What the pointer jumps by at the border of a screen, after its step.
Jump(x) ==
  IF TileOf(x) # 0 THEN 0
  ELSE IF ~scr.right THEN -Cols
  ELSE IF Beyond(x) THEN Screen - Cols
  ELSE -(Screen + Cols)

DrawTile ==
  /\ drawing /\ i < TilesOfLine
  /\ drawn' = [p \in DOMAIN drawn \cup {dst + c : c \in Shown} |->
                 IF p - dst \in Shown THEN Source(p - dst) ELSE drawn[p]]
  /\ dst' = dst + Tile
  /\ xpos' = xpos + Tile
  /\ tilemap' = tilemap + 1 + Jump(xpos + Tile)
  /\ i' = i + 1
  /\ UNCHANGED <<drawing, scr, x0, y>>

\* The line is done; the next one begins with registers of its own.
Done ==
  /\ drawing /\ i = TilesOfLine
  /\ drawing' = FALSE /\ tilemap' = 0 /\ i' = 0 /\ xpos' = 0 /\ dst' = 0
  /\ x0' = 0 /\ y' = 0 /\ drawn' = [p \in {} |-> 0]
  /\ scr' = [right |-> FALSE, below |-> FALSE]

Next == Start \/ DrawTile \/ Done

Spec == Init /\ [][Next]_vars

(****************************** Properties ********************************)

\* The picture the map means: a plane of two by two screens, of which those
\* that do not exist repeat the others, scrolled under the line.
PixelAt(p) ==
  LET X == (x0 + p) % (2 * Width)
      right == Beyond(X) /\ scr.right
      below == Beyond(y) /\ scr.below
      screen == (IF right THEN 1 ELSE 0)
                + (IF ~below THEN 0 ELSE IF scr.right THEN 2 ELSE 1)
      cell == screen * Screen + TileOf(y) * Cols + TileOf(X)
  IN <<cell,
       IF cell \in VFlip THEN Tile - 1 - (y % Tile) ELSE y % Tile,
       IF cell \in HFlip THEN Tile - 1 - (X % Tile) ELSE X % Tile>>

\* Every pixel of the line shows what the map means for it, whatever the
\* scroll position and the screens there are: no jump of the pointer is early,
\* late or in the wrong direction, and no tile is cut too much.
PixelsRight ==
  /\ \A p \in DOMAIN drawn \cap 0 .. Width - 1 : drawn[p] = PixelAt(p)
  /\ drawing /\ i = TilesOfLine => 0 .. Width - 1 \subseteq DOMAIN drawn

\* "FIXME it leaks out!" (ppu.c:798): the mask keeps the tiles that hang over
\* the two ends of the line from writing outside of it.
InsideLine == DOMAIN drawn \subseteq 0 .. Width - 1
=============================================================================
