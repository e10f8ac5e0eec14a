-------------------------------- MODULE Video --------------------------------
(***************************************************************************)
(* hc::Video: the texture the core's frames are copied into.  The texture  *)
(* is made for the largest frame of the geometry, when one dimension of it *)
(* is too small; the part of it that is drawn is that of the last frame.   *)
(***************************************************************************)
EXTENDS Naturals

CONSTANT Size  \* widths and heights

ASSUME VideoAssumption == Size \subseteq Nat \ {0}

VARIABLES
  texture,   \* _textureWidth and _textureHeight, zero without a texture
  image,     \* _width and _height
  format,    \* _pixelFormat
  geometry,  \* external: max_width and max_height, as the core last set them
  replaced   \* history: was the texture replaced since the last frame?

videoVars == <<texture, image, format, geometry, replaced>>

Extent == [w : Size \union {0}, h : Size \union {0}]
Nil    == [w |-> 0, h |-> 0]
Fits(a, b) == a.w <= b.w /\ a.h <= b.h

(* Video::init().                                                          *)
VideoInit ==
  /\ texture = Nil
  /\ image = Nil
  /\ format = "UNKNOWN"
  /\ geometry = Nil
  /\ replaced = FALSE

-----------------------------------------------------------------------------
(* Mutant: the texture is kept when one of its dimensions will do.         *)
FitTextureEither(g) ==
  /\ geometry' = g
  /\ IF g.w <= texture.w \/ g.h <= texture.h
     THEN UNCHANGED <<texture, replaced>>
     ELSE texture' = g /\ replaced' = TRUE
  /\ UNCHANGED image

(* setGeometry() and setupTexture().  The new texture may be smaller than  *)
(* the old one in one dimension.                                           *)
FitTexture(g) ==
  /\ geometry' = g
  /\ IF Fits(g, texture) THEN UNCHANGED <<texture, replaced>>
     ELSE texture' = g /\ replaced' = TRUE
  /\ UNCHANGED image

(* A core that runs: SET_GEOMETRY or SET_SYSTEM_AV_INFO.                   *)
SetGeometry(g) == FitTexture(g) /\ UNCHANGED format

(* A core that loads a game: setPixelFormat(), if it calls it, and then    *)
(* setSystemAvInfo().                                                      *)
SetAvInfo(f, g) == FitTexture(g) /\ format' = f

(* refresh(), with a frame within the geometry, as libretro demands.       *)
Refresh(f) ==
  /\ Fits(f, geometry)
  /\ image' = f
  /\ replaced' = FALSE
  /\ UNCHANGED <<texture, format, geometry>>

(* onGameUnloaded().                                                       *)
DeleteTexture ==
  /\ texture' = Nil
  /\ image' = Nil
  /\ replaced' = FALSE
  /\ UNCHANGED <<format, geometry>>

(* onCoreUnloaded().                                                       *)
ForgetFormat ==
  /\ format' = "UNKNOWN"
  /\ UNCHANGED <<texture, image, geometry, replaced>>

Format == {"UNKNOWN", "0RGB1555", "XRGB8888", "RGB565"}

-----------------------------------------------------------------------------
VideoTypeOK ==
  /\ texture \in Extent
  /\ image \in Extent
  /\ format \in Format
  /\ geometry \in Extent
  /\ replaced \in BOOLEAN
=============================================================================
