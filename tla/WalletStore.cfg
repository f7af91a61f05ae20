SPECIFICATION Spec
CONSTANTS
    Wallet = {w1}
    Path = {p1}
    Password = {a, b}
PROPERTIES SetupIsFirst
