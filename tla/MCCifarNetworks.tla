--------------------------- MODULE MCCifarNetworks ---------------------------
(* Every network of MODEL_DICT and GRAPH_MODEL_DICT, other networks of the    *)
(* same files, the Vision Transformers with the sizes of their weights, and   *)
(* the three ResNet8.                                                         *)
EXTENDS CifarNetworks

Registered ==
  {"resnet18", "resnet34", "resnet50", "resnet101", "resnet152",
   "vgg11", "vgg13", "vgg16", "vgg19",
   "densenet121", "densenet161", "densenet169", "densenet201",
   "googlenet", "nasnet", "inceptionv4", "inceptionv3", "mobilenetv2",
   "preactresnet18", "preactresnet34", "preactresnet50", "preactresnet101", "preactresnet152",
   "resnet20", "resnet32", "resnet44", "resnet56", "resnet110",
   "resnext50", "resnext101", "resnext152",
   "se_resnet20", "se_resnet32", "se_resnet56", "se_resnet110", "se_resnet164",
   "xception", "vit_cifar", "swin_t", "swin_s", "swin_b", "swin_l",
   "pointnet", "dgcnn"}

AllModels == Registered \cup {"inception_resnet_v2", "senet/resnet20", "senet/resnet110"}
             \cup DOMAIN WeightSizes \cup Resnet8s
=============================================================================
