----------------------------- MODULE Watermark ------------------------------
(***************************************************************************)
(* What is burned into a preview: internals/ffmpeg (Probe, look, fitText,  *)
(* the drawtext and overlay positions) and internals/wmopts (the text).    *)
(* ffprobe's streams are read one by one, then one job is styled.          *)
(*                                                                         *)
(* A text is its length: a template is a sequence of pieces, of which the  *)
(* company and the date can be dropped with a separator beside them.       *)
(* Glyph widths are the code's estimate, in hundredths; float arithmetic   *)
(* is exact here.                                                          *)
(***************************************************************************)
EXTENDS Integers, SequencesExt

CONSTANTS
  Sizes,        \* width and height of a stream; 0 and 0 if ffprobe reports none
  MaxStreams,   \* bound: video streams of a file
  Templates,    \* sequences of "company", "recipient", "date", "sep", "words"
                \* that name the recipient
  Companies, Recipients,   \* lengths; 0 for no company
  Logos,        \* width and height of a logo
  Scales,       \* logo width in percent of the picture
  MinFont, MinMargin,      \* FontSizePx and MarginPx of the configuration
  LogoWidthPx   \* and the width of a logo that is not scaled; 0 for its own

VARIABLES
  stage,        \* "probe", then "style"
  streams,      \* what ffprobe has reported so far
  picture,      \* ProbeResult's size, and whether it is of a real picture
  job,          \* the text and look that were asked for
  mark          \* what is drawn

vars == <<stage, streams, picture, job, mark>>

None == [of |-> "none"]

Positions == {"top-left", "top-right", "bottom-left", "bottom-right", "center", "tiled"}

-----------------------------------------------------------------------------
(* Probe.                                                                  *)

(* Mutant of Beats: cover art is not told from a picture.                  *)
Widest(s) == s.w > picture.w

Rotated(s) == IF s.turned THEN [s EXCEPT !.w = s.h, !.h = s.w] ELSE s

(* A real picture beats cover art; among equals, the widest.               *)
Beats(s) == (~s.cover /\ ~picture.real) \/ (s.w > picture.w /\ ~(s.cover /\ picture.real))

ReadStream(s) ==
  /\ stage = "probe" /\ Len(streams) < MaxStreams
  /\ streams' = Append(streams, s)
  /\ picture' = IF Beats(Rotated(s))
                THEN [w |-> Rotated(s).w, h |-> Rotated(s).h, real |-> ~s.cover]
                ELSE picture
  /\ UNCHANGED <<stage, job, mark>>

(* A file without a video stream gets no text; nor is the kind of the      *)
(* picture told on.                                                        *)
EndProbe ==
  /\ stage = "probe" /\ streams # <<>>
  /\ stage' = "style"
  /\ streams' = <<>> /\ picture' = [picture EXCEPT !.real = FALSE]
  /\ UNCHANGED <<job, mark>>

-----------------------------------------------------------------------------
(* wmopts: the text.                                                       *)

Ellipsis        == 3
MinCompanyRunes == 3
MaxTextRunes    == 200

(* The words are as many as a template has room for beside one placeholder.*)
Runes(piece, company, recipient) ==
  CASE piece = "company"   -> company
    [] piece = "recipient" -> recipient
    [] piece = "date"      -> 10
    [] piece = "sep"       -> 3
    [] piece = "words"     -> 109

PieceAt(t, i) == IF i \in DOMAIN t THEN t[i] ELSE "end"

(* dropPlaceholder: the separator after goes, else the one before.         *)
Dropped(t, gone, i) ==
  \/ t[i] = gone
  \/ t[i] = "sep" /\ PieceAt(t, i - 1) = gone
  \/ t[i] = "sep" /\ PieceAt(t, i + 1) = gone /\ PieceAt(t, i + 2) # "sep"

Drop(t, gone) ==
  FoldLeftDomain(LAMBDA kept, i : IF Dropped(t, gone, i) THEN kept ELSE Append(kept, t[i]), <<>>, t)

Total(t, company, recipient) ==
  FoldLeft(LAMBDA sum, piece : sum + Runes(piece, company, recipient), 0, t)

(* render, for a company of so many characters and with or without a date. *)
Shown(t, company, date) ==
  LET named == IF company = 0 THEN Drop(t, "company") ELSE t IN
  IF date THEN named ELSE Drop(named, "date")

Rendered(t, company, date, recipient) == Total(Shown(t, company, date), company, recipient)

(* TrimSpace before the ellipsis: a cut behind the blank loses it.         *)
Cut(n, blank) == (IF n = blank THEN n - 1 ELSE n) + Ellipsis

Text(company, date) == [company |-> company, date |-> date]

Shortened(j, fits) == Cut(Max(fits), j.blank)

(* RenderTextFit.                                                          *)
RenderTextFit(j, budget) ==
  LET Runed(company, date) == Rendered(j.template, company, date, j.recipient)
      fits == {n \in MinCompanyRunes..(j.company - 1) : Runed(Cut(n, j.blank), TRUE) <= budget}
      DateGone(company) ==
        Text(company, ~(Runed(company, FALSE) < Runed(company, TRUE))) IN
  CASE Runed(j.company, TRUE) <= budget -> Text(j.company, TRUE)
    [] OTHER ->
       IF j.company = 0 \/ Runed(0, TRUE) >= Runed(j.company, TRUE) THEN DateGone(j.company)
       ELSE IF fits # {} THEN Text(Shortened(j, fits), TRUE)
       ELSE IF Runed(0, TRUE) <= budget THEN Text(0, TRUE)
       ELSE DateGone(0)

-----------------------------------------------------------------------------
(* ffmpeg: the look.                                                       *)

AbsMinPx           == 6
BoxBorderPx        == 8
FallbackFrameWidth == 1280

AtLeast(n, m) == IF n < m THEN m ELSE n
AtMost(n, m)  == IF n > m THEN m ELSE n

(* look, before a font was fitted.                                         *)
BasePx == AtLeast((picture.w * 22) \div 1000, MinFont)
Margin == AtLeast((picture.w * 2) \div 100, MinMargin)

(* The brand's scale is of a width that is known.                          *)
LogoWidth(j) == IF picture.w > 0 THEN AtLeast((picture.w * j.scale) \div 100, 16) ELSE LogoWidthPx

LogoHeight(j) ==
  CASE j.logo = <<0, 0>> -> 0
    [] j.logo # <<0, 0>> /\ LogoWidth(j) = 0 -> j.logo[2]
    [] OTHER -> (LogoWidth(j) * j.logo[2]) \div j.logo[1]

(* FitText.                                                                *)
MinPx      == AtLeast((BasePx * 6) \div 10, AbsMinPx)
FrameWidth == IF picture.w > 0 THEN picture.w ELSE FallbackFrameWidth
AvailPx(j) ==
  AtLeast((FrameWidth * (IF j.position = "tiled" THEN 30 ELSE 90)) \div 100 - 2 * BoxBorderPx, 1)

(* Mutant of Budget: no limit is passed on.                                *)
Unlimited(j) == 1000

Budget(j) == AtLeast((AvailPx(j) * 100) \div (62 * MinPx), 1)

(* FontPx.                                                                 *)
FontPx(j, n) ==
  IF n = 0 THEN BasePx
  ELSE AtMost(AtLeast((AvailPx(j) * 100) \div (62 * n), AbsMinPx), BasePx)

(* How far a logo moves the text: down from the top and the centre, up     *)
(* from the bottom.                                                        *)
Off(j, h) ==
  CASE h = 0 -> 0
    [] h > 0 /\ j.position \in {"top-left", "top-right"} -> h + Margin \div 2
    [] h > 0 /\ j.position = "center" -> h \div 2 + Margin \div 2
    [] OTHER -> -(h + Margin \div 2)

(* drawtextXY and overlayXY: the upper edge of a text or a logo so high.   *)
Edge(position, height) ==
  CASE position \in {"top-left", "top-right"} -> Margin
    [] position = "center" -> (picture.h - height) \div 2
    [] OTHER -> picture.h - height - Margin

(* Tiled texts stand on a grid of their own, between the logos.            *)
TextTop(j, px, logo) ==
  CASE j.position = "tiled" -> picture.h \div 3 - px \div 2
    [] j.position = "center" /\ logo > 0 -> picture.h \div 2 + Off(j, logo)
    [] OTHER -> Edge(j.position, px) + Off(j, logo)

(* Somewhere in so much of the text the recipient is named to the end.     *)
Named(t, company, recipient, limit) ==
  \E i \in DOMAIN t :
    t[i] = "recipient" /\ Total(SubSeq(t, 1, i), company, recipient) <= limit

(* renderText, fitText and the filters.  The operator's own text is taken  *)
(* as it is.  SanitizeText ends every text at MaxTextRunes.                *)
Watermark(j) ==
  /\ stage = "style" /\ mark = None
  /\ job' = j
  /\ LET text == RenderTextFit(j, Budget(j))
         pieces == Shown(j.template, text.company, text.date)
         runes == IF j.own > 0 THEN j.own
                  ELSE AtMost(Total(pieces, text.company, j.recipient), MaxTextRunes)
         logo == LogoHeight(j)
         px == FontPx(j, runes) IN
     mark' = [of |-> "job", text |-> text, runes |-> runes, px |-> px, logo |-> logo,
              whole |-> j.own > 0 \/ Named(pieces, text.company, j.recipient, MaxTextRunes),
              top |-> TextTop(j, px, logo)]
  /\ UNCHANGED <<stage, streams, picture>>

Init ==
  /\ stage = "probe" /\ streams = <<>> /\ picture = [w |-> 0, h |-> 0, real |-> FALSE]
  /\ job = None /\ mark = None

Streams ==
  {[w |-> size[1], h |-> size[2], cover |-> cover, turned |-> turned] :
     size \in Sizes, cover \in BOOLEAN, turned \in BOOLEAN}

(* A name of more than ten characters has a blank after the tenth.         *)
Requests ==
  {[template |-> t, company |-> company, blank |-> IF company > 10 THEN 11 ELSE 0,
    recipient |-> recipient, own |-> own, position |-> position, logo |-> logo, scale |-> scale] :
     t \in Templates, company \in Companies, recipient \in Recipients, own \in {0, MaxTextRunes},
     position \in Positions, logo \in Logos \cup {<<0, 0>>}, scale \in Scales}

(* A look is drawn once; a mark that is there saves going through Requests.*)
Next ==
  \/ \E s \in Streams : ReadStream(s)
  \/ EndProbe
  \/ mark = None /\ \E j \in Requests : Watermark(j)

Spec == Init /\ [][Next]_vars
-----------------------------------------------------------------------------
(* Every variable keeps its type; a font never outgrows the look.          *)
TypeOK ==
  /\ Len(streams) <= MaxStreams /\ stage \in {"probe", "style"}
  /\ picture.w \in Nat /\ picture.h \in Nat
  /\ mark # None => mark.px \in 1..BasePx /\ mark.runes \in 1..MaxTextRunes

(* Whatever order ffprobe lists the streams in, the size is that of the    *)
(* widest upright picture, and of cover art only in a file with no other   *)
(* (ffmpeg/main.go:113).                                                   *)
PictureSize ==
  LET Widths(of) == {Rotated(s).w : s \in {x \in ToSet(streams) : x \in of}}
      real == Widths({x \in Streams : ~x.cover}) IN
  streams # <<>> => picture.w = IF real # {} THEN Max(real) ELSE Max(Widths(Streams))

Marked == mark # None
Fitted == Marked /\ job.own = 0

(* The recipient is cut by the cap on the finished text only where the     *)
(* operator's words and he alone are longer than it, when all else is      *)
(* given up (wmopts.go:74, ffmpeg/filters.go:243).                         *)
RecipientWhole ==
  Fitted /\ ~mark.whole =>
    LET pieces == Shown(job.template, mark.text.company, mark.text.date) IN
    /\ ToSet(pieces) \cap {"company", "date"} = {}
    /\ Total(pieces, 0, job.recipient) > MaxTextRunes

(* A text gives up the end of its company, then the company, then the      *)
(* date, and nothing that would have fitted (wmopts.go:72).                *)
GivesUpInOrder ==
  Fitted =>
    LET Runed(company, date) == Rendered(job.template, company, date, job.recipient)
        text == mark.text IN
    /\ Runed(job.company, TRUE) <= Budget(job) => text = Text(job.company, TRUE)
    /\ text.company # job.company =>
         \A n \in MinCompanyRunes..(job.company - 1) :
           Cut(n, job.blank) > text.company => Runed(Cut(n, job.blank), TRUE) > Budget(job)
    /\ ~text.date => Runed(0, TRUE) > Budget(job)
    /\ Runed(text.company, text.date) > Budget(job) =>
         ToSet(Shown(job.template, text.company, text.date)) \cap {"company", "date"} = {}

(* The estimated line stays inside its share of the picture, or of a width *)
(* of FallbackFrameWidth if that of the picture is not known, unless the   *)
(* font is at its smallest, and a text within the budget keeps at least    *)
(* MinPx (ffmpeg/textfit.go:61).                                           *)
FitsLine ==
  Marked =>
    /\ 62 * mark.px * mark.runes <= 100 * AvailPx(job) \/ mark.px = AbsMinPx
    /\ mark.runes <= Budget(job) => mark.px >= MinPx

(* A logo at the same place does not cover the text: above it at the       *)
(* bottom, below it at the top and in the centre (ffmpeg/filters.go:204).  *)
ClearOfLogo ==
  Marked /\ mark.logo > 0 /\ job.position # "tiled" =>
    LET logo == Edge(job.position, mark.logo) IN
    mark.top + mark.px <= logo + 1 \/ logo + mark.logo <= mark.top + 1

(* "The watermark text must stay inside the picture" (ffmpeg/textfit.go:5),*)
(* upright as well, if its size is known: a logo as high as half of it     *)
(* still leaves the text there.  A higher one, which a portrait logo at a  *)
(* large scale is, can push it out.                                        *)
TextInPicture ==
  Marked /\ picture.w > 0 /\ job.position # "tiled" /\ 2 * mark.logo <= picture.h =>
    mark.top >= 0 /\ mark.top + mark.px <= picture.h
=============================================================================
