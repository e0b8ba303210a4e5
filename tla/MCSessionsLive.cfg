\* An owner's requests, two at a time, any of which may be dropped, beside expiry.
SPECIFICATION OwnerSpec
CONSTANTS
    c1 = c1
    Conn = {c1}
    s1 = s1
    s2 = s2
    Session = {s1, s2}
    f1 = f1
    f2 = f2
    ticker = ticker
    Flow = {f1, f2, ticker}
    Ticker = ticker
    Capacity = 1
    MaxRev = 1
    None = None
PROPERTIES
    ComesFree
    RequestsEnd
