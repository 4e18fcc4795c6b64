SPECIFICATION Spec
CONSTANTS
  None = None Doctor = Doctor a = a b = b c = c
  Agents = {a, b, c}
  MaxFiles = 3
INVARIANTS TypeOK OneAgent DoctorRight
