\* Two requests at a time for two assessments of one certificate; the second
\* examiner's is published by the administrator only.
CONSTANTS
    a1 = a1
    a2 = a2
    e1 = e1
    e2 = e2
    c1 = c1
    NoProc = NoProc
    Procs = {p1, p2}
    Assessments = {a1, a2}
    Certificates = {c1}
    Examiners = {e1, e2}
    CertificateOf <- OneCertificate
    ExaminerOf <- EachHerOwn
    Admin = Admin
    NoExaminer = NoExaminer
    Callers = {e1, Admin}
    Scores = {69, 70}
    MaxVersion = 2
SPECIFICATION Spec
SYMMETRY Alike
INVARIANTS Inductive PassedIsGranted AuditIsTheHistory
PROPERTIES  ExpectedVersionOnly
