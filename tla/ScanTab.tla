------------------------------- MODULE ScanTab -------------------------------
(***************************************************************************)
(* What a browser tab does with the reads it hears: the forms that take a  *)
(* tag (TagCapture) and the loan dialog (AssetDialog).  The two share      *)
(* nothing but the bus; the operator is busy with one of them.             *)
(***************************************************************************)
EXTENDS TagCapture, AssetDialog

VARIABLE busyWith

tabVars == <<captureVars, dialogVars, busyWith>>

\* What the operator is not busy with stands still in any one state.
TabInit ==
    /\ CaptureInit /\ DialogInit
    /\ \/ busyWith = "form" /\ \A a \in Assets : status[a] = "in_stock"
       \/ busyWith = "loan" /\ page = CHOOSE p \in Pages : TRUE

TabNext ==
    /\ UNCHANGED busyWith
    /\ \/ busyWith = "form" /\ CaptureNext /\ UNCHANGED dialogVars
       \/ busyWith = "loan" /\ DialogNext /\ UNCHANGED captureVars

\* Form and loan dialog stay well-formed: no read is in the table twice, no
\* request names a row that is not there or an asset that is none, and a dialog
\* is on the screen only with an asset.
TabTypeOK == CaptureTypeOK /\ DialogTypeOK

\* The page's timer fires, and the server does not fail every request for ever;
\* nobody promises that a read comes, that it is heard on the bus, or that its
\* row is written.
TabSpec ==
    /\ TabInit /\ [][TabNext]_tabVars
    /\ WF_captureVars(busyWith = "form" /\ PollAsks /\ UNCHANGED dialogVars)
    /\ SF_captureVars(busyWith = "form" /\ PollAnswered /\ UNCHANGED dialogVars)
=============================================================================
