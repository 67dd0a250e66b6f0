SPECIFICATION Spec
CONSTANTS
  Kinds <- AllKinds
  Mail <- MailKinds
  Everything = "everything"
  Queries <- AllOrRejected
  LineCounts = {1, 2}
  Tails = {t1}
  StdoutMayFail = TRUE
  FileMayFail = TRUE
  MaxLogged = 4
  MaxStarts = 2
INVARIANTS TypeOK NoEventLost TailIsLast TailInOrder
