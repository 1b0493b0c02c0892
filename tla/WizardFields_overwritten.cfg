\* The webcam's form only.
CONSTANTS
    v = v
    u = u
    Values = {v}
    Blank = blank
    NoAnswer = noanswer
    Offers <- WebcamsOnly
    Found = {}
    ApiConfHere = FALSE
SPECIFICATION Spec
PROPERTY EditsKept
