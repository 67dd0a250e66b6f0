----------------------------- MODULE MCMailLog -----------------------------
(***************************************************************************)
(* Four lines of three kinds, one tail that asks for one or two lines, two *)
(* starts of the process.                                                  *)
(***************************************************************************)
EXTENDS MailLog

AllKinds == {"accepted", "rejected", "other"}
MailKinds == {"accepted", "rejected"}
AllOrRejected == {Everything, "rejected"}
=============================================================================
