\* Three senders that meet at a local and at an FTP destination.
CONSTANTS
    Workers = {w1, w2, w3}
    Dsts = {"local", "ftp"}
    Locals = {"local"}
    None = None
SPECIFICATION Spec
PROPERTIES ImplementsAtomicReplace DstStays SuccessVerified
SYMMETRY WorkerSymmetry
