------------------------------- MODULE MCJob --------------------------------
(***************************************************************************)
(* What happens to a job outside the worker pool, for TLC: its payment     *)
(* with requests that overlap (Payments) and one after the other (Single), *)
(* its files (Media), the delivery of its links (Delivery) and the look of *)
(* its preview (Watermark).  These share no variable but the two of        *)
(* Payments: "part" says which of them a behaviour is of, the others stay  *)
(* in their initial states.                                                *)
(***************************************************************************)
EXTENDS Payments, TLC

CONSTANTS
  Alone,     \* the one request of Single at a time
  \* of Media, and MaxFaults of Delivery as well
  Jobs, MaxSize, JobsPerDay, StorageQuota, MaxFaults,
  \* of Delivery
  MaxResends, MaxSwitches

(* The server has finitely many requests in progress, and the limits are   *)
(* on: a file may have a size (config/main.go:429), and a limit of zero is *)
(* none (job/service.go:154-159).                                          *)
ASSUME JobAssumption ==
  /\ IsFiniteSet(Handlers) /\ Handlers # {}
  /\ {MaxSize, JobsPerDay, StorageQuota, MaxResends} \subseteq Nat \ {0}
  /\ MaxFaults \in Nat

VARIABLES
  part,
  status, recent, asset, size, files, req, work, leaked, lapses,
  off, mailed, late, views, switches, request, switched, lost,
  stage, streams, picture, style, mark

mediaVars     == <<status, recent, asset, size, files, req, work, leaked, lapses>>
deliveryVars  == <<off, mailed, late, views, switches, request, switched, lost>>
watermarkVars == <<stage, streams, picture, style, mark>>
allVars       == <<part, vars, mediaVars, deliveryVars, watermarkVars>>

Single == INSTANCE Payments WITH
  Handlers <- {Alone}, Delayed <- FALSE, MaxErrors <- 0

Media == INSTANCE Media WITH faults <- lapses

Delivery == INSTANCE Delivery WITH
  req <- request, overlapped <- switched, faults <- lost

StreamSizes == {<<0, 0>>, <<90, 160>>, <<640, 360>>, <<1920, 1080>>}
TextTemplates ==
  {<<"recipient", "sep", "date">>, <<"company", "sep", "recipient", "sep", "date">>,
   <<"date", "sep", "company", "sep", "recipient">>, <<"words", "recipient">>,
   <<"recipient", "sep", "recipient">>}
LogoSizes == {<<400, 100>>, <<200, 400>>}

Watermark == INSTANCE Watermark WITH
  Sizes <- StreamSizes, MaxStreams <- 2, Templates <- TextTemplates,
  Companies <- {0, 2, 12, 80}, Recipients <- {20, 110, 210}, Logos <- LogoSizes, Scales <- {10, 50},
  MinFont <- 18, MinMargin <- 24, LogoWidthPx <- 240, job <- style

JobInit ==
  /\ part \in {"payments", "single", "media", "delivery", "watermark"}
  /\ IF part = "single" THEN Single!Init ELSE Init
  /\ Media!Init /\ Delivery!Init /\ Watermark!Init

JobNext ==
  /\ UNCHANGED part
  /\ \/ /\ part = "payments" /\ Next
        /\ UNCHANGED <<mediaVars, deliveryVars, watermarkVars>>
     \/ /\ part = "single" /\ Single!Next
        /\ UNCHANGED <<mediaVars, deliveryVars, watermarkVars>>
     \/ /\ part = "media" /\ Media!Next
        /\ UNCHANGED <<vars, deliveryVars, watermarkVars>>
     \/ /\ part = "delivery" /\ Delivery!Next
        /\ UNCHANGED <<vars, mediaVars, watermarkVars>>
     \/ /\ part = "watermark" /\ Watermark!Next
        /\ UNCHANGED <<vars, mediaVars, deliveryVars>>

JobSpec == JobInit /\ [][JobNext]_allVars

Interchangeable == Permutations(Handlers) \cup Permutations(Jobs)
-----------------------------------------------------------------------------
(* Every part: the variables keep their types.                             *)
TypesOK ==
  CASE part = "payments"  -> TypeOK
    [] part = "single"    -> Single!TypeOK
    [] part = "media"     -> Media!TypeOK
    [] part = "delivery"  -> Delivery!TypeOK
    [] part = "watermark" -> Watermark!TypeOK

(* Requests that do not overlap: the history has one "paid" entry per      *)
(* purchase (payment/service.go:377).                                      *)
PaidNotedOnce == part = "single" => Single!NotedOnce

(* Rows of assets and files of the store match, but for what a failure or  *)
(* a crash left behind and what a request is still at (job/service.go:346).*)
FilesMatchRows == Media!NoDangling /\ Media!NoOrphans /\ Media!FoundIsServed

(* A limit of the account or on mails is passed by no more than what the   *)
(* requests that read it at the same time do (job/service.go Create,       *)
(* share/operator.go Resend).                                              *)
LimitsHold == Media!DailyLimit /\ Media!Quota /\ Delivery!ResendLimit

(* The job's history tells what happened to its links: who opened them,    *)
(* and whether they are on.                                                *)
HistoryTells == Delivery!HistoryTells /\ Delivery!Alternating /\ Delivery!OpenedOnce

(* The picture is measured the same in whatever order its streams come.    *)
PictureSize == Watermark!PictureSize

(* The text names the recipient in full unless he and the operator's words *)
(* are too long for any, gives up the rest in order, and stays on its      *)
(* line, clear of the logo and in the picture.                             *)
TextIsRead ==
  /\ Watermark!RecipientWhole /\ Watermark!GivesUpInOrder /\ Watermark!FitsLine
  /\ Watermark!ClearOfLogo /\ Watermark!TextInPicture
=============================================================================
