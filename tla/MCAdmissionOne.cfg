CONSTANTS
    Clients = {c1, c2}
    Keys = {k1, k2, k3}
    Products = {"latte", "special"}
    Materials = {"milk"}
    Recipe <- TwoDrinks
    Declared = {"latte"}
    Customizable = {"latte"}
    Quoted = {"latte"}
    QueueLimit = 2
    InitialStock <- One
    MaxPrice <- LatteRepriced
    MaxVersion = 2
    MaxWrittenOff = 1
SPECIFICATION Spec
INVARIANTS NeverOversold AnsweredAsAsked
SYMMETRY BothSymmetry
