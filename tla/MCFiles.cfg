SPECIFICATION VSpec
CONSTANTS
    Absent = Absent
    Tabs = {b1, b2}
    Deletions = {d1, d2}
    Uploads = {u1, u2}
    Txns = {t1, t2}
    Keys = {k1, k2, k3}
    Sizes = {1}
    Quota = 1
    MaxFaults = 1
    Presses = {p1, p2}
CONSTRAINT Bounded
SYMMETRY Symmetry
INVARIANTS AttachmentIsStored CertificateIsStored QuotaHolds PreviewIsItsOwn
